---------------------------- MODULE Spec2Model ----------------------------
(***************************************************************************)
(* MuttR: the transcript cleanup pipeline (muttr/cleanup.py) and the       *)
(* cadence engine (muttr/cadence.py) as state machines.                    *)
(*                                                                         *)
(* Text is a sequence of atoms.  An atom is one maximal run of word        *)
(* characters (a word or a number), one whitespace character (" " or       *)
(* "\n"), one punctuation character, or one URL / e-mail body.  Every      *)
(* regular expression of the source is translated to a matcher over atoms: *)
(* MatchEnd(s, i) is the index of the last atom of the match that starts   *)
(* at atom i, or 0 when the expression does not match there.               *)
(***************************************************************************)
EXTENDS Integers, Sequences, FiniteSets, TLC

VARIABLES
    text,                   \* cleanup: the argument of the next clean_text call
    level,                  \* cleanup: the slider level passed to clean_text
    result,                 \* cleanup: what the last clean_text call returned
    previous,               \* cleanup: the result of the call before the last
    pc,                     \* cleanup: "start" | "cleaned" | "recleaned"
    CUSTOM_PROPER_NOUNS,    \* cleanup.py:201
    _PROPER_NOUN_MAP,       \* cleanup.py:204
    now,                    \* cadence: time.monotonic(), in ms
    disk,                   \* cadence: the profile file cadence.json
    tracker,                \* cadence: "none" | "active" | "finished" | "dropped"
    _in_pause,              \* CadenceTracker._in_pause
    _pause_start,           \* CadenceTracker._pause_start, in ms
    _had_speech,            \* CadenceTracker._had_speech
    _pauses_ms,             \* CadenceTracker._pauses_ms
    samples,                \* cadence: the update calls of the session so far
    loaded,                 \* finish_session: what load_profile() returned
    returned,               \* finish_session: the profile it returned
    writes,                 \* cadence: the number of save_profile calls
    adaptive_silence,       \* get_auto_stop_ms: what config.load() gave
    auto_stop,              \* get_auto_stop_ms: the value it returned
    last,                   \* cadence: the last operation
    entries,                \* SpeechProfile.entries
    baseline_wpm,           \* SpeechProfile.baseline_wpm
    baseline_energy,        \* SpeechProfile.baseline_energy
    arrivals,               \* speech: every snapshot the profile was given
    metrics,                \* get_feedback: its argument
    feedback,               \* get_feedback: the label it returned
    speech_op,              \* speech: the last operation
    words,                  \* TranscriptionResult.words
    result_text,            \* TranscriptionResult.text
    has_word_confidence,    \* TranscriptionResult.has_word_confidence
    confidence_review,      \* should_show_review: what config.load() gave
    shown,                  \* should_show_review: the value it returned
    index,                  \* replace_word: its argument index
    new_word,               \* replace_word: its argument new_word
    conf_op,                \* confidence: the last operation
    cadence_json,           \* what is stored at _cadence_path()
    speech_json,            \* what is stored at _speech_profile_path()
    load_result,            \* the outcome of the last load_profile or
                            \* load_speech_profile call
    audio,                  \* SpeechMetrics.analyze: its argument audio
    transcript,             \* SpeechMetrics.analyze: its argument transcript
    duration_s,             \* SpeechMetrics.analyze: its argument duration_s
    analysis,               \* SpeechMetrics.analyze: what it returned or raised
    p_pc,                   \* _transcribe_and_insert: the stage it is at
    has_tracker,            \* _transcribe_and_insert: self._cadence_tracker is not None
    failed,                 \* _transcribe_and_insert: the ancillary stages that raised
    cleaned,                \* _transcribe_and_insert: "none" | "empty" | "text"
    within_budget,          \* _transcribe_and_insert: not budget.is_over_budget()
    inserts,                \* _transcribe_and_insert: insert_text calls scheduled
    hides,                  \* _transcribe_and_insert: overlay.hide calls scheduled
    error,                  \* the stage whose exception reached the outer except
    _model_ready,           \* MuttRApp: the transcriber has loaded
    sessions,               \* MuttRApp: recordings started so far
    recording,              \* MuttRApp: the recording that is running, 0 for none
    _cadence_tracker,       \* MuttRApp: the tracker in the field (named by its recording), 0 for None
    _level_timer,           \* MuttRApp: the level timer is scheduled
    timer_pc,               \* update_level: "idle" | "checked" | "loaded"
    timer_obj,              \* update_level: the tracker it is about to call update on
    timer_raised,           \* update_level: it raised AttributeError on None
    updated,                \* trackers that update() was called on
    finished,               \* trackers that finish_session() was called on
    late_updates,           \* trackers that update() was called on after finish_session()
    threads,                \* _transcribe_and_insert threads, by the recording they were started for
    clock,                  \* time.monotonic(), in fiftieths of a second since the first press
    _fn_held,               \* HotkeyListener: the fn key is down
    _tap_timestamps,        \* HotkeyListener: the times of the recent presses
    _pending_single,        \* HotkeyListener: a single press awaits disambiguation
    _disambiguation_timer,  \* HotkeyListener: the scheduled NSTimer, kind and due time
    _committed,             \* HotkeyListener: the press was decided
    press_times,            \* the times of all presses so far
    key_downs,              \* calls of on_key_down
    key_ups,                \* calls of on_key_up
    double_taps,            \* calls of on_double_tap
    triple_taps,            \* calls of on_triple_tap
    _on_double_tap,         \* HotkeyListener: on_double_tap is registered
    _on_triple_tap,         \* HotkeyListener: on_triple_tap is registered
    since_up,               \* the callbacks invoked since the last on_key_up
    today,                  \* date.today(), as a day number
    word_usage,             \* the word_usage table: words_used by day, NoRecord for no row
    calls_today,            \* transcriptions inserted today
    rebuild_pc,             \* add_proper_nouns: the statement it is at
    lookup                  \* _replace_single: the lookup of a reader thread

cleanupVars == <<text, level, result, previous, pc>>
nounVars == <<CUSTOM_PROPER_NOUNS, _PROPER_NOUN_MAP>>
trackerVars == <<now, tracker, _in_pause, _pause_start, _had_speech,
                 _pauses_ms, samples>>
profileVars == <<disk, loaded, returned, writes, adaptive_silence, auto_stop>>
cadenceVars == <<trackerVars, profileVars, last>>
speechVars == <<entries, baseline_wpm, baseline_energy, arrivals, metrics,
                feedback, speech_op>>
confVars == <<words, result_text, has_word_confidence, confidence_review,
              shown, index, new_word, conf_op>>
loadVars == <<cadence_json, speech_json, load_result>>
analyzeVars == <<audio, transcript, duration_s, analysis>>
pipelineVars == <<p_pc, has_tracker, failed, cleaned, within_budget, inserts, hides, error>>
appVars == <<_model_ready, sessions, recording, _cadence_tracker, _level_timer, timer_pc, timer_obj, timer_raised, updated, finished, late_updates, threads>>
hotkeyVars == <<clock, _fn_held, _tap_timestamps, _pending_single, _disambiguation_timer, _committed, press_times, key_downs, key_ups, double_taps, triple_taps, _on_double_tap, _on_triple_tap, since_up>>
budgetVars == <<today, word_usage, calls_today>>
rebuildVars == <<rebuild_pc, lookup>>
\* The components beside the cleanup and the cadence tracker
moreVars == <<speechVars, confVars, loadVars, analyzeVars, pipelineVars, appVars, hotkeyVars, budgetVars, rebuildVars>>
notSpeech == <<cleanupVars, nounVars, cadenceVars, confVars, loadVars, analyzeVars, pipelineVars, appVars, hotkeyVars, budgetVars, rebuildVars>>
notConf == <<cleanupVars, nounVars, cadenceVars, speechVars, loadVars, analyzeVars, pipelineVars, appVars, hotkeyVars, budgetVars, rebuildVars>>
notLoad == <<cleanupVars, nounVars, cadenceVars, speechVars, confVars, analyzeVars, pipelineVars, appVars, hotkeyVars, budgetVars, rebuildVars>>
notAnalyze == <<cleanupVars, nounVars, cadenceVars, speechVars, confVars, loadVars, pipelineVars, appVars, hotkeyVars, budgetVars, rebuildVars>>
notPipeline == <<cleanupVars, nounVars, cadenceVars, speechVars, confVars, loadVars, analyzeVars, appVars, hotkeyVars, budgetVars, rebuildVars>>
notApp == <<cleanupVars, nounVars, cadenceVars, speechVars, confVars, loadVars, analyzeVars, pipelineVars, hotkeyVars, budgetVars, rebuildVars>>
notHotkey == <<cleanupVars, nounVars, cadenceVars, speechVars, confVars, loadVars, analyzeVars, pipelineVars, appVars, budgetVars, rebuildVars>>
notBudget == <<cleanupVars, nounVars, cadenceVars, speechVars, confVars, loadVars, analyzeVars, pipelineVars, appVars, hotkeyVars, rebuildVars>>
notRebuild == <<cleanupVars, nounVars, cadenceVars, speechVars, confVars, loadVars, analyzeVars, pipelineVars, appVars, hotkeyVars, budgetVars>>
notNounsRebuild == <<cleanupVars, cadenceVars, speechVars, confVars, loadVars, analyzeVars, pipelineVars, appVars, hotkeyVars, budgetVars>>
vars == <<cleanupVars, nounVars, cadenceVars, moreVars>>

---------------------------------------------------------------------------
(* Atoms and character classes                                             *)

NUL == "<NUL>"              \* the character \x00 of the placeholders
BACKTICK == "<BT>"          \* the backtick that delimits a code span
EOT == ""                   \* what At returns outside the text
NoneText == <<"<None>">>        \* None of Python passed as text

UrlAtoms == {"http://x", "www.y"}
EmailAtoms == {"a@b.c"}
WhiteSpace == {" ", "\n"}
Punctuation == {".", ",", ")", BACKTICK, "-", "!", "?", ":", ";", "*", NUL}
NonWordAtoms == WhiteSpace \cup Punctuation \cup UrlAtoms \cup EmailAtoms
DigitAtoms == {"1", "2", "3", "4", "5", "6", "7", "8", "9", "10"}

IsSpace(a) == a \in WhiteSpace
IsWord(a) == a # EOT /\ a \notin NonWordAtoms

\* str.upper() of the first character, by word
CapTable ==
    [a |-> "A", b |-> "B", um |-> "Um", uh |-> "Uh", you |-> "You",
     know |-> "Know", sort |-> "Sort", kind |-> "Kind", of |-> "Of",
     basically |-> "Basically", actually |-> "Actually",
     literally |-> "Literally", i |-> "I", mean |-> "Mean", like |-> "Like",
     number |-> "Number", one |-> "One", two |-> "Two", first |-> "First",
     second |-> "Second", bullet |-> "Bullet", point |-> "Point",
     dash |-> "Dash", next |-> "Next", item |-> "Item", new |-> "New",
     line |-> "Line", paragraph |-> "Paragraph", period |-> "Period",
     york |-> "York", iphone |-> "Iphone", iPhone |-> "IPhone",
     google |-> "Google", muttr |-> "Muttr", my |-> "My", co |-> "Co",
     zed |-> "Zed", zED |-> "ZED"]

\* str.lower(), by word (what re.IGNORECASE compares)
LowerTable ==
    [A |-> "a", B |-> "b", Um |-> "um", Uh |-> "uh", You |-> "you",
     Know |-> "know", Sort |-> "sort", Kind |-> "kind", Of |-> "of",
     Basically |-> "basically", Actually |-> "actually",
     Literally |-> "literally", I |-> "i", Mean |-> "mean", Like |-> "like",
     Number |-> "number", One |-> "one", Two |-> "two", First |-> "first",
     Second |-> "second", Bullet |-> "bullet", Point |-> "point",
     Dash |-> "dash", Next |-> "next", Item |-> "item", New |-> "new",
     Line |-> "line", Paragraph |-> "paragraph", Period |-> "period",
     York |-> "york", Iphone |-> "iphone", iPhone |-> "iphone",
     IPhone |-> "iphone", Google |-> "google", GOOG |-> "goog",
     Muttr |-> "muttr", MuttR |-> "muttr", My |-> "my", Co |-> "co",
     MyCo |-> "myco", NYC |-> "nyc", Zed |-> "zed", zED |-> "zed",
     ZED |-> "zed", COMP |-> "comp", PRESERVE0 |-> "preserve0",
     PRESERVE1 |-> "preserve1", PRESERVE2 |-> "preserve2",
     PRESERVE3 |-> "preserve3", PRESERVE4 |-> "preserve4",
     PRESERVE5 |-> "preserve5", PRESERVE6 |-> "preserve6",
     PRESERVE7 |-> "preserve7"]

\* f"\x00PRESERVE{counter}\x00" without its delimiters, by counter + 1
PlaceholderWords ==
    <<"PRESERVE0", "PRESERVE1", "PRESERVE2", "PRESERVE3", "PRESERVE4",
      "PRESERVE5", "PRESERVE6", "PRESERVE7">>
PlaceholderWordSet == {PlaceholderWords[k] : k \in DOMAIN PlaceholderWords}

Cap(a) == IF a \in DOMAIN CapTable THEN CapTable[a] ELSE a
Lower(a) == IF a \in DOMAIN LowerTable THEN LowerTable[a] ELSE a
IsLowerInitial(a) == a \in DOMAIN CapTable      \* [a-z] as first character
IsUpperInitial(a) == a \in DOMAIN LowerTable /\ a \notin DOMAIN CapTable
\* [A-Za-z]+ : a word without a digit
IsLetters(a) ==
    /\ a \in DOMAIN CapTable \/ a \in DOMAIN LowerTable
    /\ a \notin PlaceholderWordSet

---------------------------------------------------------------------------
(* Sequence helpers                                                        *)

At(s, i) == IF i >= 1 /\ i <= Len(s) THEN s[i] ELSE EOT
Slice(s, i, j) == IF i > j THEN <<>> ELSE SubSeq(s, i, j)

RECURSIVE Flatten(_)
Flatten(ss) == IF ss = <<>> THEN <<>> ELSE Head(ss) \o Flatten(Tail(ss))

RECURSIVE Join(_, _)
Join(ss, sep) ==
    IF ss = <<>> THEN <<>>
    ELSE IF Len(ss) = 1 THEN Head(ss)
    ELSE Head(ss) \o sep \o Join(Tail(ss), sep)

\* First index j >= i whose atom is not in class C (Len(s)+1 when none)
RECURSIVE SkipClass(_, _, _)
SkipClass(s, i, C) ==
    IF i <= Len(s) /\ s[i] \in C THEN SkipClass(s, i + 1, C) ELSE i

SkipWs(s, i) == SkipClass(s, i, WhiteSpace)

\* Last index j <= i whose atom is not in class C (0 when none)
RECURSIVE SkipClassBack(_, _, _)
SkipClassBack(s, i, C) ==
    IF i >= 1 /\ s[i] \in C THEN SkipClassBack(s, i - 1, C) ELSE i

\* str.strip(), str.rstrip(chars)
RStripClass(s, C) == Slice(s, 1, SkipClassBack(s, Len(s), C))
StripWs(s) == Slice(s, SkipWs(s, 1), SkipClassBack(s, Len(s), WhiteSpace))

\* str.split(sep) for a one-atom separator
RECURSIVE SplitOn(_, _)
SplitOn(s, sep) ==
    IF \A i \in 1..Len(s) : s[i] # sep THEN <<s>>
    ELSE LET k == CHOOSE i \in 1..Len(s) :
                      s[i] = sep /\ \A j \in 1..(i - 1) : s[j] # sep
         IN <<Slice(s, 1, k - 1)>> \o SplitOn(Slice(s, k + 1, Len(s)), sep)

\* re.sub: E[i] is the end of the match starting at i (0: none), R[i] what
\* replaces it; matches are taken leftmost first and do not overlap.
RECURSIVE Sub(_, _, _, _)
Sub(s, E, R, i) ==
    IF i > Len(s) THEN <<>>
    ELSE IF E[i] > 0 THEN R[i] \o Sub(s, E, R, E[i] + 1)
    ELSE <<s[i]>> \o Sub(s, E, R, i + 1)

\* re.findall / re.split: the starts of the matches, leftmost first
RECURSIVE MatchStarts(_, _, _)
MatchStarts(E, i, n) ==
    IF i > n THEN <<>>
    ELSE IF E[i] > 0 THEN <<i>> \o MatchStarts(E, E[i] + 1, n)
    ELSE MatchStarts(E, i + 1, n)

\* re.split without groups: the pieces between the matches
RECURSIVE Pieces(_, _, _, _)
Pieces(s, E, i, from) ==
    IF i > Len(s) THEN <<Slice(s, from, Len(s))>>
    ELSE IF E[i] > 0
         THEN <<Slice(s, from, i - 1)>> \o Pieces(s, E, E[i] + 1, E[i] + 1)
    ELSE Pieces(s, E, i + 1, from)

\* A phrase of words separated by whitespace runs (\s+), compared without
\* case, starting at atom j; the index of its last word, or 0.
RECURSIVE PhraseEnd(_, _, _)
PhraseEnd(s, j, phrase) ==
    IF Lower(At(s, j)) # Head(phrase) \/ ~IsWord(At(s, j)) THEN 0
    ELSE IF Len(phrase) = 1 THEN (IF IsWord(At(s, j + 1)) THEN 0 ELSE j)
    ELSE IF ~IsSpace(At(s, j + 1)) THEN 0
    ELSE PhraseEnd(s, SkipWs(s, j + 1), Tail(phrase))

\* \b before atom j, which starts with a word character
BoundaryBefore(s, j) == ~IsWord(At(s, j - 1))

---------------------------------------------------------------------------
(* Token preservation: _PRESERVE_PATTERN, _extract_preserved,              *)
(* _restore_preserved                                                      *)

\* Last atom of the run of non-whitespace atoms (\S+) that contains atom i
RECURSIVE RunEnd(_, _)
RunEnd(s, i) ==
    IF i < Len(s) /\ ~IsSpace(s[i + 1]) THEN RunEnd(s, i + 1) ELSE i

\* Index of the first backtick at or after i (0 when none)
RECURSIVE NextBacktick(_, _)
NextBacktick(s, i) ==
    IF i > Len(s) THEN 0
    ELSE IF s[i] = BACKTICK THEN i
    ELSE NextBacktick(s, i + 1)

\* https?://\S+ | www\.\S+ | \S+@\S+\.\S+ | a code span, alternatives in
\* order; a code span is a backtick, one or more other characters, a backtick
PreserveEnd(s, i) ==
    IF IsSpace(s[i]) THEN 0
    ELSE IF s[i] \in UrlAtoms THEN RunEnd(s, i)
    ELSE IF \E k \in i..RunEnd(s, i) : s[k] \in EmailAtoms THEN RunEnd(s, i)
    ELSE IF s[i] = BACKTICK /\ NextBacktick(s, i + 1) > i + 1
         THEN NextBacktick(s, i + 1)
    ELSE 0

Placeholder(counter) == <<NUL, PlaceholderWords[counter + 1], NUL>>

\* <<modified text, tokens>>, tokens a sequence of <<placeholder, original>>
_extract_preserved(s) ==
    LET E == [i \in 1..Len(s) |-> PreserveEnd(s, i)]
        starts == MatchStarts(E, 1, Len(s))
        counterOf == [i \in 1..Len(s) |->
                        IF \E k \in 1..Len(starts) : starts[k] = i
                        THEN (CHOOSE k \in 1..Len(starts) : starts[k] = i) - 1
                        ELSE 0]
        R == [i \in 1..Len(s) |-> Placeholder(counterOf[i])]
    IN <<Sub(s, E, R, 1),
         [k \in 1..Len(starts) |->
             <<Placeholder(k - 1), Slice(s, starts[k], E[starts[k]])>>]>>

\* str.replace(old, new): every occurrence, leftmost first
ReplaceAll(s, old, new) ==
    LET E == [i \in 1..Len(s) |->
                IF i + Len(old) - 1 <= Len(s)
                   /\ SubSeq(s, i, i + Len(old) - 1) = old
                THEN i + Len(old) - 1 ELSE 0]
        R == [i \in 1..Len(s) |-> new]
    IN Sub(s, E, R, 1)

RECURSIVE _restore_preserved(_, _)
_restore_preserved(s, tokens) ==
    IF tokens = <<>> THEN s
    ELSE _restore_preserved(ReplaceAll(s, Head(tokens)[1], Head(tokens)[2]),
                            Tail(tokens))

---------------------------------------------------------------------------
(* Paragraph / line-break commands                                         *)

\* \s*\b<phrase>\b : the phrase after an optional whitespace run
LeadWsPhraseEnd(s, i, phrase) ==
    LET j == SkipWs(s, i)
    IN IF j > i \/ BoundaryBefore(s, j) THEN PhraseEnd(s, j, phrase) ELSE 0

\* ...\s* : the match extended over the whitespace run after atom e
TrailWs(s, e) == IF e = 0 THEN 0 ELSE SkipWs(s, e + 1) - 1

\* [.\s]*\b(?:period)\s+(?:new\s+paragraph)\b
_PERIOD_NEW_PARA(s, i) ==
    LET j == SkipClass(s, i, WhiteSpace \cup {"."})
    IN IF j > i \/ BoundaryBefore(s, j)
       THEN PhraseEnd(s, j, <<"period", "new", "paragraph">>)
       ELSE 0

\* \s*\b(?:new|next)\s+paragraph\b\s*
_NEW_PARAGRAPH(s, i) ==
    LET e1 == LeadWsPhraseEnd(s, i, <<"new", "paragraph">>)
        e2 == LeadWsPhraseEnd(s, i, <<"next", "paragraph">>)
    IN TrailWs(s, IF e1 > 0 THEN e1 ELSE e2)

\* \s*\b(?:new|next)\s+line\b\s*
_NEW_LINE(s, i) ==
    LET e1 == LeadWsPhraseEnd(s, i, <<"new", "line">>)
        e2 == LeadWsPhraseEnd(s, i, <<"next", "line">>)
    IN TrailWs(s, IF e1 > 0 THEN e1 ELSE e2)

_process_paragraph_commands(s) ==
    LET t1 == Sub(s, [i \in 1..Len(s) |-> _PERIOD_NEW_PARA(s, i)],
                  [i \in 1..Len(s) |-> <<".", "\n", "\n">>], 1)
        t2 == Sub(t1, [i \in 1..Len(t1) |-> _NEW_PARAGRAPH(t1, i)],
                  [i \in 1..Len(t1) |-> <<"\n", "\n">>], 1)
    IN Sub(t2, [i \in 1..Len(t2) |-> _NEW_LINE(t2, i)],
           [i \in 1..Len(t2) |-> <<"\n">>], 1)

---------------------------------------------------------------------------
(* Proper nouns                                                            *)

\* The atoms of a trigger or of a canonical casing, by string
KeyAtoms ==
    [k \in {"iphone", "google", "new york", "muttr", "my co", "zed"} |->
        CASE k = "new york" -> <<"new", " ", "york">>
          [] k = "my co" -> <<"my", " ", "co">>
          [] OTHER -> <<k>>]

\* DAYS_OF_WEEK .. COUNTRIES_AND_CITIES, BRAND_NAMES, restricted to the
\* words of the model: "Google", "iPhone", "New York"
BUILTIN_PROPER_NOUNS ==
    [k \in {"iphone", "google", "new york"} |->
        CASE k = "iphone" -> <<"iPhone">>
          [] k = "google" -> <<"Google">>
          [] OTHER -> <<"New", " ", "York">>]

\* dict.update: the entries of g win
Update(f, g) ==
    [k \in DOMAIN f \cup DOMAIN g |-> IF k \in DOMAIN g THEN g[k] ELSE f[k]]

\* The table _rebuild_proper_noun_map builds from the custom entries
_rebuild_proper_noun_map(custom) == Update(BUILTIN_PROPER_NOUNS, custom)

\* Built once, when the module is imported, from the table of that moment
_MULTI_WORD_NOUNS ==
    LET m == _rebuild_proper_noun_map(<<>>)
    IN [k \in {x \in DOMAIN m : Len(KeyAtoms[x]) > 1} |-> m[k]]

\* sorted(_MULTI_WORD_NOUNS.items(), key=lambda x: -len(x[0]))
MultiWordOrder == <<"new york">>

\* re.escape(lc) with IGNORECASE: the literal atoms of the trigger
LiteralEnd(s, i, pat) ==
    IF i + Len(pat) - 1 <= Len(s)
       /\ \A k \in 1..Len(pat) : Lower(s[i + k - 1]) = pat[k]
    THEN i + Len(pat) - 1 ELSE 0

RECURSIVE SubMultiWord(_, _)
SubMultiWord(s, keys) ==
    IF keys = <<>> THEN s
    ELSE LET lc == Head(keys)
             t == Sub(s, [i \in 1..Len(s) |-> LiteralEnd(s, i, KeyAtoms[lc])],
                      [i \in 1..Len(s) |-> _MULTI_WORD_NOUNS[lc]], 1)
         IN SubMultiWord(t, Tail(keys))

\* _SINGLE_WORD_RE (a word of letters between two \b) and _replace_single
_replace_single(s, i) ==
    IF IsLetters(s[i]) /\ BoundaryBefore(s, i) /\ ~IsWord(At(s, i + 1))
       /\ Lower(s[i]) \in DOMAIN _PROPER_NOUN_MAP
       /\ Lower(s[i]) \notin DOMAIN _MULTI_WORD_NOUNS
    THEN _PROPER_NOUN_MAP[Lower(s[i])]
    ELSE <<s[i]>>

_capitalize_proper_nouns(s) ==
    LET t == SubMultiWord(s, MultiWordOrder)
    IN Flatten([i \in 1..Len(t) |-> _replace_single(t, i)])

---------------------------------------------------------------------------
(* Core cleanup stages                                                     *)

\* re.sub(r"[ \t]+", " ", line)
RECURSIVE CollapseSpaces(_)
CollapseSpaces(s) ==
    IF s = <<>> THEN <<>>
    ELSE IF Head(s) = " " /\ At(s, 2) = " " THEN CollapseSpaces(Tail(s))
    ELSE <<Head(s)>> \o CollapseSpaces(Tail(s))

\* re.sub(r"\n{3,}", "\n\n", result)
RECURSIVE CollapseNewlines(_)
CollapseNewlines(s) ==
    IF s = <<>> THEN <<>>
    ELSE IF Head(s) = "\n" /\ At(s, 2) = "\n" /\ At(s, 3) = "\n"
         THEN CollapseNewlines(Tail(s))
    ELSE <<Head(s)>> \o CollapseNewlines(Tail(s))

_normalize_whitespace(s) ==
    LET lines == SplitOn(s, "\n")
        trimmed == [k \in 1..Len(lines) |-> StripWs(CollapseSpaces(lines[k]))]
    IN StripWs(CollapseNewlines(Join(trimmed, <<"\n">>)))

\* \b(\w+)(\s+\1)+\b with IGNORECASE: the end of the last repetition
RECURSIVE RepeatEnd(_, _, _)
RepeatEnd(s, w, e) ==
    LET j == SkipWs(s, e + 1)
    IN IF j > e + 1 /\ IsWord(At(s, j)) /\ Lower(At(s, j)) = Lower(w)
          /\ ~IsWord(At(s, j + 1))
       THEN RepeatEnd(s, w, j)
       ELSE e

_remove_repeated_words(s) ==
    LET E == [i \in 1..Len(s) |->
                IF IsWord(s[i]) /\ BoundaryBefore(s, i)
                   /\ RepeatEnd(s, s[i], i) > i
                THEN RepeatEnd(s, s[i], i) ELSE 0]
        R == [i \in 1..Len(s) |-> <<s[i]>>]
    IN Sub(s, E, R, 1)

\* \b(\w+(?:\s+\w+)?)\s+\1\b with IGNORECASE: the end of the match whose
\* group is the two words at i (two = TRUE) or the one word at i
FalseStartEnd(s, i, two) ==
    LET j == IF two THEN SkipWs(s, i + 1) ELSE i
        k == SkipWs(s, j + 1)
        e == k + (j - i)
    IN IF /\ IsWord(s[i]) /\ BoundaryBefore(s, i)
          /\ (two => IsSpace(At(s, i + 1)) /\ IsWord(At(s, j))
                       /\ ~IsWord(At(s, j + 1)))
          /\ (~two => ~IsWord(At(s, i + 1)))
          /\ IsSpace(At(s, j + 1))
          /\ e <= Len(s)
          /\ \A d \in 0..(j - i) : Lower(s[k + d]) = Lower(s[i + d])
          /\ ~IsWord(At(s, e + 1))
       THEN e ELSE 0

_remove_false_starts(s) ==
    LET two == [i \in 1..Len(s) |-> FalseStartEnd(s, i, TRUE)]
        E == [i \in 1..Len(s) |->
                IF two[i] > 0 THEN two[i] ELSE FalseStartEnd(s, i, FALSE)]
        R == [i \in 1..Len(s) |->
                IF two[i] > 0 THEN Slice(s, i, SkipWs(s, i + 1))
                ELSE <<s[i]>>]
    IN Sub(s, E, R, 1)

---------------------------------------------------------------------------
(* Filler words                                                            *)

FILLER_WORDS ==
    << <<"um">>, <<"uh">>, <<"you", " ", "know">>, <<"basically">>,
       <<"actually">>, <<"literally">>, <<"i", " ", "mean">>,
       <<"sort", " ", "of">>, <<"kind", " ", "of">> >>

\* \b<words>\b with IGNORECASE at atom k: the end of the match, or 0
WordsEnd(s, k, pat) ==
    LET e == LiteralEnd(s, k, pat)
    IN IF e > 0 /\ IsWord(s[k]) /\ BoundaryBefore(s, k) /\ ~IsWord(At(s, e + 1))
       THEN e ELSE 0

\* The end of the first alternative of pats that matches at k, or 0
RECURSIVE AnyWordsEnd(_, _, _)
AnyWordsEnd(s, k, pats) ==
    IF pats = <<>> \/ k > Len(s) THEN 0
    ELSE IF WordsEnd(s, k, Head(pats)) > 0 THEN WordsEnd(s, k, Head(pats))
    ELSE AnyWordsEnd(s, k, Tail(pats))

\* ,?\s*(?: alternatives )\s*,?\s*
CommaWrapped(s, i, pats) ==
    LET j == IF s[i] = "," THEN i + 1 ELSE i
        e == AnyWordsEnd(s, SkipWs(s, j), pats)
        t == SkipWs(s, e + 1)
    IN IF e = 0 THEN 0
       ELSE SkipWs(s, IF At(s, t) = "," THEN t + 1 ELSE t) - 1

FILLER_PATTERN(s, i) == CommaWrapped(s, i, FILLER_WORDS)

_LIKE_PROTECT_WORDS ==
    {"look", "looks", "looking", "feel", "feels", "felt", "feeling", "seem",
     "seems", "seemed", "seeming", "sound", "sounds", "sounded", "sounding",
     "smell", "smells", "smelled", "taste", "tastes", "tasted", "just",
     "more", "much", "something", "anything", "nothing", "everything",
     "i", "you", "we", "they", "he", "she", "it"}

\* \b( protected word )\s+(like)\b
_LIKE_PROTECT(s, i) ==
    IF IsWord(s[i]) /\ BoundaryBefore(s, i) /\ ~IsWord(At(s, i + 1))
       /\ Lower(s[i]) \in _LIKE_PROTECT_WORDS /\ IsSpace(At(s, i + 1))
    THEN WordsEnd(s, SkipWs(s, i + 1), <<"like">>)
    ELSE 0

_LIKE_FILLER(s, i) == CommaWrapped(s, i, << <<"like">> >>)
_LIKE_SENTINEL == <<NUL, "COMP", NUL>>

_remove_fillers(s) ==
    LET blank(t) == [i \in 1..Len(t) |-> <<" ">>]
        t1 == Sub(s, [i \in 1..Len(s) |-> FILLER_PATTERN(s, i)], blank(s), 1)
        t2 == Sub(t1, [i \in 1..Len(t1) |-> _LIKE_PROTECT(t1, i)],
                  [i \in 1..Len(t1) |-> <<t1[i], " ">> \o _LIKE_SENTINEL], 1)
        t3 == Sub(t2, [i \in 1..Len(t2) |-> _LIKE_FILLER(t2, i)], blank(t2), 1)
    IN ReplaceAll(t3, _LIKE_SENTINEL, <<"like">>)

---------------------------------------------------------------------------
(* Bullet lists                                                            *)

_ORDINAL_MAP ==
    [first |-> "1", second |-> "2", third |-> "3", fourth |-> "4",
     fifth |-> "5", sixth |-> "6", seventh |-> "7", eighth |-> "8",
     ninth |-> "9", tenth |-> "10"]
_CARDINAL_MAP ==
    [one |-> "1", two |-> "2", three |-> "3", four |-> "4", five |-> "5",
     six |-> "6", seven |-> "7", eight |-> "8", nine |-> "9", ten |-> "10"]
_BULLET_ORDINALS == DOMAIN _CARDINAL_MAP \cup DigitAtoms

\* \s*\bbullet\s*(?:point)?\s*(?:(?: ordinals )\s+)?
_BULLET_ITEM(s, i) ==
    LET j == SkipWs(s, i)
        k == SkipWs(s, j + 1)
        p == IF Lower(At(s, k)) = "point" THEN SkipWs(s, k + 1) ELSE k
    IN IF Lower(At(s, j)) = "bullet" /\ (j > i \/ BoundaryBefore(s, j))
       THEN IF Lower(At(s, p)) \in _BULLET_ORDINALS /\ IsSpace(At(s, p + 1))
            THEN SkipWs(s, p + 1) - 1
            ELSE p - 1
       ELSE 0

\* \s*\bdash\b\s*
_DASH_ITEM(s, i) == TrailWs(s, LeadWsPhraseEnd(s, i, <<"dash">>))

\* \s*\bnext\s+item\b\s*
_NEXT_ITEM(s, i) == TrailWs(s, LeadWsPhraseEnd(s, i, <<"next", "item">>))

BulletEnds(s) == [i \in 1..Len(s) |-> _BULLET_ITEM(s, i)]
DashEnds(s) == [i \in 1..Len(s) |-> _DASH_ITEM(s, i)]
NextItemEnds(s) == [i \in 1..Len(s) |-> _NEXT_ITEM(s, i)]

_has_bullet_markers(s) ==
    LET bullet_count == Len(MatchStarts(BulletEnds(s), 1, Len(s)))
        dash_count == Len(MatchStarts(DashEnds(s), 1, Len(s)))
    IN bullet_count >= 2 \/ dash_count >= 2

\* item[0].upper() + item[1:]
CapFirst(s) == IF s = <<>> THEN s ELSE <<Cap(Head(s))>> \o Tail(s)

\* p.strip().rstrip(",").strip()
ItemText(p) == StripWs(RStripClass(StripWs(p), {","}))

NonBlank(p) == StripWs(p) # <<>>

_format_bullet_list(s) ==
    LET parts == Pieces(s, BulletEnds(s), 1, 1)
        byDash == Flatten([k \in 1..Len(parts) |->
                     Pieces(parts[k], DashEnds(parts[k]), 1, 1)])
        expanded == Flatten([k \in 1..Len(byDash) |->
                     Pieces(byDash[k], NextItemEnds(byDash[k]), 1, 1)])
        kept == SelectSeq(expanded, NonBlank)
        items == [k \in 1..Len(kept) |-> ItemText(kept[k])]
        lines == [k \in 1..Len(items) |->
                    <<"-", " ">> \o RStripClass(CapFirst(items[k]), {"."})]
        nonEmpty(k) == items[k] # <<>>
    IN IF Len(items) <= 1 THEN s
       ELSE Join([k \in 1..Cardinality({x \in 1..Len(items) : nonEmpty(x)}) |->
                    lines[CHOOSE x \in 1..Len(items) :
                            /\ nonEmpty(x)
                            /\ Cardinality({y \in 1..x : nonEmpty(y)}) = k]],
                 <<"\n">>)

---------------------------------------------------------------------------
(* Numbered lists                                                          *)

_LIST_TAIL == {".", ",", ")", ":"} \cup WhiteSpace

\* The digits a \d{1,2} group captures in atom a ("" when none); the regex
\* of the digit-dot form has no \b, so it also takes the digits that end a
\* placeholder word
Digits(a) ==
    IF a \in DigitAtoms THEN a
    ELSE IF a \in PlaceholderWordSet
         THEN <<"0", "1", "2", "3", "4", "5", "6", "7">>[
                  CHOOSE k \in 1..Len(PlaceholderWords) :
                      PlaceholderWords[k] = a]
    ELSE ""

\* Each matcher gives <<end of the match, captured group>> for a match
\* starting at atom i, <<0, "">> when there is none.

\* \s*\bnumber\s+(one|...|ten)\b[.,):\s]*
_NUMBER_WORD_ITEM(s, i) ==
    LET j == SkipWs(s, i)
        k == SkipWs(s, j + 1)
    IN IF /\ Lower(At(s, j)) = "number" /\ (j > i \/ BoundaryBefore(s, j))
          /\ IsSpace(At(s, j + 1))
          /\ Lower(At(s, k)) \in DOMAIN _CARDINAL_MAP
          /\ ~IsWord(At(s, k + 1))
       THEN <<SkipClass(s, k + 1, _LIST_TAIL) - 1, Lower(s[k])>>
       ELSE <<0, "">>

\* \s*\bnumber\s+(\d{1,2})\b[.,):\s]*
_NUMBER_DIGIT_ITEM(s, i) ==
    LET j == SkipWs(s, i)
        k == SkipWs(s, j + 1)
    IN IF /\ Lower(At(s, j)) = "number" /\ (j > i \/ BoundaryBefore(s, j))
          /\ IsSpace(At(s, j + 1))
          /\ At(s, k) \in DigitAtoms
          /\ ~IsWord(At(s, k + 1))
       THEN <<SkipClass(s, k + 1, _LIST_TAIL) - 1, s[k]>>
       ELSE <<0, "">>

\* \s*\b(first|...|tenth)\b[.,):\s]*
_ORDINAL_ITEM(s, i) ==
    LET j == SkipWs(s, i)
    IN IF /\ Lower(At(s, j)) \in DOMAIN _ORDINAL_MAP
          /\ (j > i \/ BoundaryBefore(s, j))
          /\ ~IsWord(At(s, j + 1))
       THEN <<SkipClass(s, j + 1, _LIST_TAIL) - 1, Lower(s[j])>>
       ELSE <<0, "">>

\* \s*(\d{1,2})\s*[.)]\s*
_DIGIT_DOT_ITEM(s, i) ==
    LET j == SkipWs(s, i)
        k == SkipWs(s, j + 1)
    IN IF Digits(At(s, j)) # "" /\ At(s, k) \in {".", ")"}
       THEN <<SkipWs(s, k + 1) - 1, Digits(s[j])>>
       ELSE <<0, "">>

\* \s*\b(one|...|ten)\s*\)\s*
_CARDINAL_PAREN_ITEM(s, i) ==
    LET j == SkipWs(s, i)
        k == SkipWs(s, j + 1)
    IN IF /\ Lower(At(s, j)) \in DOMAIN _CARDINAL_MAP
          /\ (j > i \/ BoundaryBefore(s, j))
          /\ At(s, k) = ")"
       THEN <<SkipWs(s, k + 1) - 1, Lower(s[j])>>
       ELSE <<0, "">>

NumberWordItems(s) == [i \in 1..Len(s) |-> _NUMBER_WORD_ITEM(s, i)]
NumberDigitItems(s) == [i \in 1..Len(s) |-> _NUMBER_DIGIT_ITEM(s, i)]
OrdinalItems(s) == [i \in 1..Len(s) |-> _ORDINAL_ITEM(s, i)]
DigitDotItems(s) == [i \in 1..Len(s) |-> _DIGIT_DOT_ITEM(s, i)]
CardinalParenItems(s) == [i \in 1..Len(s) |-> _CARDINAL_PAREN_ITEM(s, i)]

Ends(M) == [i \in DOMAIN M |-> M[i][1]]
Count(M) == Len(MatchStarts(Ends(M), 1, Len(M)))

\* pattern.search(text): at least one match
_has_numbered_markers(s) ==
    \/ Count(NumberWordItems(s)) >= 1
    \/ Count(NumberDigitItems(s)) >= 1
    \/ Count(OrdinalItems(s)) >= 1
    \/ Count(DigitDotItems(s)) >= 1
    \/ Count(CardinalParenItems(s)) >= 1

\* The number an item is given: _CARDINAL_MAP.get(g, g), _ORDINAL_MAP.get(g)
\* or the digits themselves; "" stands for None
ItemNumber(g) ==
    IF g \in DOMAIN _CARDINAL_MAP THEN _CARDINAL_MAP[g]
    ELSE IF g \in DOMAIN _ORDINAL_MAP THEN _ORDINAL_MAP[g]
    ELSE g

\* One pass of the loop over chunks = re.split(M, text): the <<number,
\* content>> pairs of the groups whose following piece has content
ChunkItems(s, M) ==
    LET starts == MatchStarts(Ends(M), 1, Len(s))
        pieces == Pieces(s, Ends(M), 1, 1)
        content(k) == ItemText(pieces[k + 1])
        all == [k \in 1..Len(starts) |->
                  IF content(k) # <<>>
                  THEN << <<ItemNumber(M[starts[k]][2]),
                            RStripClass(CapFirst(content(k)), {"."})>> >>
                  ELSE <<>>]
    IN Flatten(all)

\* chunks[0].strip()
Preamble(s, M) == StripWs(Head(Pieces(s, Ends(M), 1, 1)))

\* lines = [preamble] (if any) + ["{num}. {content}" ...], joined by "\n"
NumberedLines(preamble, items) ==
    LET lines == [k \in 1..Len(items) |->
                    <<items[k][1], ".", " ">> \o items[k][2]]
    IN Join((IF preamble = <<>> THEN <<>> ELSE <<preamble>>) \o lines,
            <<"\n">>)

\* The list items is one list shared by the five forms: what a form that
\* did not return has appended stays for the next form.
_format_numbered_list(s) ==
    LET W == NumberWordItems(s)
        D == NumberDigitItems(s)
        O == OrdinalItems(s)
        P == CardinalParenItems(s)
        T == DigitDotItems(s)
        items1 == IF Count(W) >= 1 THEN ChunkItems(s, W) ELSE <<>>
        items2 == IF Count(D) >= 1 THEN items1 \o ChunkItems(s, D) ELSE items1
        items3 == IF Count(O) >= 1 THEN items2 \o ChunkItems(s, O) ELSE items2
        items4 == IF Count(P) >= 1 THEN items3 \o ChunkItems(s, P) ELSE items3
        items5 == IF Count(T) >= 1 THEN items4 \o ChunkItems(s, T) ELSE items4
    IN IF Count(W) >= 1 /\ items1 # <<>>
       THEN NumberedLines(Preamble(s, W), items1)
       ELSE IF Count(D) >= 1 /\ items2 # <<>>
       THEN NumberedLines(Preamble(s, D), items2)
       ELSE IF Count(O) >= 1 /\ Len(items3) >= 2
       THEN NumberedLines(Preamble(s, O), items3)
       ELSE IF Count(P) >= 1 /\ items4 # <<>>
       THEN NumberedLines(Preamble(s, P), items4)
       ELSE IF Count(T) >= 1 /\ Len(items5) >= 2
       THEN NumberedLines(Preamble(s, T), items5)
       ELSE s

---------------------------------------------------------------------------
(* Punctuation, sentence case, terminal punctuation                        *)

\* \.{2,}
DotRun(s, i) ==
    IF s[i] = "." /\ At(s, i + 1) = "." THEN SkipClass(s, i, {"."}) - 1 ELSE 0

\* \s+([.!?,;:])
SpaceBeforePunct(s, i) ==
    IF IsSpace(s[i]) /\ At(s, SkipWs(s, i)) \in {".", "!", "?", ",", ";", ":"}
    THEN SkipWs(s, i) ELSE 0

\* ([.!?])([A-Z])
PunctThenUpper(s, i) ==
    IF s[i] \in {".", "!", "?"} /\ IsUpperInitial(At(s, i + 1))
    THEN i + 1 ELSE 0

_stronger_punctuation_smoothing(s) ==
    LET t1 == Sub(s, [i \in 1..Len(s) |-> DotRun(s, i)],
                  [i \in 1..Len(s) |-> <<".">>], 1)
        t2 == Sub(t1, [i \in 1..Len(t1) |-> SpaceBeforePunct(t1, i)],
                  [i \in 1..Len(t1) |-> <<At(t1, SkipWs(t1, i))>>], 1)
        t3 == Sub(t2, [i \in 1..Len(t2) |-> PunctThenUpper(t2, i)],
                  [i \in 1..Len(t2) |-> <<t2[i], " ", At(t2, i + 1)>>], 1)
        t4 == ReplaceAll(t3, <<",", ".">>, <<".">>)
    IN ReplaceAll(t4, <<".", ",">>, <<",">>)

\* ([.!?])\s+([a-z])
BreakThenLower(s, i) ==
    IF s[i] \in {".", "!", "?"} /\ IsSpace(At(s, i + 1))
       /\ IsLowerInitial(At(s, SkipWs(s, i + 1)))
    THEN SkipWs(s, i + 1) ELSE 0

_cap_after_break(t) ==
    Sub(t, [i \in 1..Len(t) |-> BreakThenLower(t, i)],
        [i \in 1..Len(t) |-> <<t[i], " ", Cap(At(t, SkipWs(t, i + 1)))>>], 1)

_sentence_case(s) ==
    LET lines == SplitOn(s, "\n")
        processed == [k \in 1..Len(lines) |->
                        _cap_after_break(CapFirst(StripWs(lines[k])))]
    IN IF s = <<>> THEN s ELSE Join(processed, <<"\n">>)

\* One line of _ensure_terminal_punctuation
TerminalLine(line) ==
    LET stripped == RStripClass(line, WhiteSpace)
    IN IF stripped = <<>> THEN stripped
       ELSE IF Head(stripped) \in {"-", "*"} /\ At(stripped, 2) = " "
       THEN stripped
       ELSE IF Head(stripped) \in DigitAtoms /\ At(stripped, 2) = "."
               /\ IsSpace(At(stripped, 3))
       THEN stripped
       ELSE IF stripped[Len(stripped)] \notin {".", "!", "?"}
       THEN stripped \o <<".">>
       ELSE stripped

_ensure_terminal_punctuation(s) ==
    LET lines == SplitOn(s, "\n")
    IN IF s = <<>> THEN s
       ELSE Join([k \in 1..Len(lines) |-> TerminalLine(lines[k])], <<"\n">>)

---------------------------------------------------------------------------
(* clean_text                                                              *)

\* level = max(0, min(2, level))
ClampLevel(l) == IF l < 0 THEN 0 ELSE IF l > 2 THEN 2 ELSE l

\* if _has_bullet_markers(result): ... elif _has_numbered_markers(result): ...
FormatLists(s) ==
    IF _has_bullet_markers(s) THEN _format_bullet_list(s)
    ELSE IF _has_numbered_markers(s) THEN _format_numbered_list(s)
    ELSE s

\* The statements of clean_text after the clamping of the level to l, in
\* their order
STAGES(l) ==
    <<"_extract_preserved", "_process_paragraph_commands",
      "_capitalize_proper_nouns", "_normalize_whitespace",
      "_remove_repeated_words">>
    \o (IF l >= 1 THEN <<"_remove_fillers", "lists">> ELSE <<>>)
    \o (IF l >= 2 THEN <<"_remove_false_starts",
                         "_stronger_punctuation_smoothing">> ELSE <<>>)
    \o <<"_normalize_whitespace", "_sentence_case",
         "_ensure_terminal_punctuation", "_restore_preserved">>

\* if not result.strip(): return raw
FALLBACK == <<"fallback">>

\* One statement, on the local variables raw, result and preserved
RunStage(name, v) ==
    LET r == v.result
    IN CASE name = "_extract_preserved" ->
              [v EXCEPT !.result = _extract_preserved(r)[1],
                        !.preserved = _extract_preserved(r)[2]]
         [] name = "_process_paragraph_commands" ->
              [v EXCEPT !.result = _process_paragraph_commands(r)]
         [] name = "_capitalize_proper_nouns" ->
              [v EXCEPT !.result = _capitalize_proper_nouns(r)]
         [] name = "_normalize_whitespace" ->
              [v EXCEPT !.result = _normalize_whitespace(r)]
         [] name = "_remove_repeated_words" ->
              [v EXCEPT !.result = _remove_repeated_words(r)]
         [] name = "_remove_fillers" ->
              [v EXCEPT !.result = _remove_fillers(r)]
         [] name = "lists" ->
              [v EXCEPT !.result = FormatLists(r)]
         [] name = "_remove_false_starts" ->
              [v EXCEPT !.result = _remove_false_starts(r)]
         [] name = "_stronger_punctuation_smoothing" ->
              [v EXCEPT !.result = _stronger_punctuation_smoothing(r)]
         [] name = "_sentence_case" ->
              [v EXCEPT !.result = _sentence_case(r)]
         [] name = "_ensure_terminal_punctuation" ->
              [v EXCEPT !.result = _ensure_terminal_punctuation(r)]
         [] name = "_restore_preserved" ->
              [v EXCEPT !.result = _restore_preserved(r, v.preserved)]
         [] name = "fallback" ->
              [v EXCEPT !.result = IF StripWs(r) = <<>> THEN v.raw ELSE r]

\* The statements run one after the other
RECURSIVE Stages(_, _)
Stages(v, names) ==
    IF names = <<>> THEN v
    ELSE Stages(RunStage(Head(names), v), Tail(names))

\* raw = text.strip(), before the first stage
Locals(t) == [raw |-> StripWs(t), result |-> StripWs(t), preserved |-> <<>>]

IsBlank(t) == t = NoneText \/ StripWs(t) = <<>>

\* clean_text without its last three lines, the safety fallback
clean_text_without_fallback(t, l) ==
    IF IsBlank(t) THEN <<>>
    ELSE Stages(Locals(t), STAGES(ClampLevel(l))).result

clean_text(t, l) ==
    IF IsBlank(t) THEN <<>>
    ELSE Stages(Locals(t), STAGES(ClampLevel(l)) \o FALLBACK).result

---------------------------------------------------------------------------
(* The cadence engine (muttr/cadence.py).  Times are in ms, RMS levels in  *)
(* thousandths, the statistics of the profile file in tenths of a ms (the  *)
(* file holds them rounded to one decimal), the statistics of a profile in *)
(* memory are exact fractions [num, den] of a ms.                          *)

_RMS_FLOOR == 5
_MIN_PAUSE_MS == 100
_EMA_ALPHA_TENTHS == 1
_MIN_SAMPLES == 20
_FLOOR_MS == 800
_CEILING_MS == 3000
_DEFAULT_AUTO_STOP_MS == 2000

NoTime == -1                \* None as _pause_start

RECURSIVE GCD(_, _)
GCD(a, b) == IF b = 0 THEN a ELSE GCD(b, a % b)

\* The fraction n / d in lowest terms
Frac(n, d) == [num |-> n \div GCD(n, d), den |-> d \div GCD(n, d)]
FracEq(a, b) == a.num * b.den = b.num * a.den
FracLeq(a, b) == a.num * b.den <= b.num * a.den

\* CadenceProfile(): the defaults of __init__
CadenceProfile ==
    [mean_pause_ms |-> Frac(0, 1), p75_pause_ms |-> Frac(0, 1),
     p90_pause_ms |-> Frac(0, 1), sample_count |-> 0]

\* CadenceProfile.from_dict on the content of the file
from_dict(d) ==
    [mean_pause_ms |-> Frac(d.mean_pause_ms, 10),
     p75_pause_ms |-> Frac(d.p75_pause_ms, 10),
     p90_pause_ms |-> Frac(d.p90_pause_ms, 10),
     sample_count |-> d.sample_count]

NoFile ==
    [exists |-> FALSE, mean_pause_ms |-> 0, p75_pause_ms |-> 0,
     p90_pause_ms |-> 0, sample_count |-> 0]

load_profile == IF disk.exists THEN from_dict(disk) ELSE CadenceProfile

is_trained(profile) == profile.sample_count >= _MIN_SAMPLES

\* round(x, 1) in tenths: the nearest tenth; an exact tie is decided by the
\* binary value of the float, so either neighbour is possible
RoundTenths(x) ==
    LET t == (10 * x.num) \div x.den
        r == (10 * x.num) % x.den
    IN IF 2 * r < x.den THEN {t}
       ELSE IF 2 * r > x.den THEN {t + 1}
       ELSE {t, t + 1}

\* The files save_profile can write for a profile: to_dict, json.dump
to_dict(profile) ==
    {[exists |-> TRUE, mean_pause_ms |-> m, p75_pause_ms |-> q,
      p90_pause_ms |-> r, sample_count |-> profile.sample_count] :
        m \in RoundTenths(profile.mean_pause_ms),
        q \in RoundTenths(profile.p75_pause_ms),
        r \in RoundTenths(profile.p90_pause_ms)}

\* sorted(self._pauses_ms)
RECURSIVE Insert(_, _)
Insert(x, sq) ==
    IF sq = <<>> THEN <<x>>
    ELSE IF x <= Head(sq) THEN <<x>> \o sq
    ELSE <<Head(sq)>> \o Insert(x, Tail(sq))

RECURSIVE Sorted(_)
Sorted(sq) == IF sq = <<>> THEN <<>> ELSE Insert(Head(sq), Sorted(Tail(sq)))

RECURSIVE Sum(_)
Sum(sq) == IF sq = <<>> THEN 0 ELSE Head(sq) + Sum(Tail(sq))

\* session_mean, session_p75, session_p90 of finish_session
session_mean(pauses) == Frac(Sum(pauses), Len(pauses))
session_p75(pauses) ==
    IF Len(pauses) >= 4
    THEN Frac(Sorted(pauses)[((3 * Len(pauses)) \div 4) + 1], 1)
    ELSE session_mean(pauses)
session_p90(pauses) ==
    IF Len(pauses) >= 10
    THEN Frac(Sorted(pauses)[((9 * Len(pauses)) \div 10) + 1], 1)
    ELSE session_p75(pauses)

\* (1 - a) * old + a * session
Ema(old, session) ==
    Frac((10 - _EMA_ALPHA_TENTHS) * old.num * session.den
             + _EMA_ALPHA_TENTHS * session.num * old.den,
         10 * old.den * session.den)

\* Merged with one sample counted for the session as a whole
Merged_per_session(profile, pauses) ==
    IF profile.sample_count = 0
    THEN [mean_pause_ms |-> session_mean(pauses),
          p75_pause_ms |-> session_p75(pauses),
          p90_pause_ms |-> session_p90(pauses),
          sample_count |-> 1]
    ELSE [mean_pause_ms |-> Ema(profile.mean_pause_ms, session_mean(pauses)),
          p75_pause_ms |-> Ema(profile.p75_pause_ms, session_p75(pauses)),
          p90_pause_ms |-> Ema(profile.p90_pause_ms, session_p90(pauses)),
          sample_count |-> profile.sample_count + 1]

\* The profile finish_session makes of the loaded one and the pauses
Merged(profile, pauses) ==
    IF profile.sample_count = 0
    THEN [mean_pause_ms |-> session_mean(pauses),
          p75_pause_ms |-> session_p75(pauses),
          p90_pause_ms |-> session_p90(pauses),
          sample_count |-> Len(pauses)]
    ELSE [mean_pause_ms |-> Ema(profile.mean_pause_ms, session_mean(pauses)),
          p75_pause_ms |-> Ema(profile.p75_pause_ms, session_p75(pauses)),
          p90_pause_ms |-> Ema(profile.p90_pause_ms, session_p90(pauses)),
          sample_count |-> profile.sample_count + Len(pauses)]

\* max(_FLOOR_MS, min(_CEILING_MS, x))
Clamp(x) ==
    IF x < _FLOOR_MS THEN _FLOOR_MS
    ELSE IF x > _CEILING_MS THEN _CEILING_MS
    ELSE x

\* What config.load() does: the setting is on, is off, or load() raises
Configs == {"true", "false", "raises"}

File(m, q, r, n) ==
    [exists |-> TRUE, mean_pause_ms |-> m, p75_pause_ms |-> q,
     p90_pause_ms |-> r, sample_count |-> n]

\* The profile files earlier runs have left: none, one pause of 100.0 ms,
\* one sample short of trained, trained with 2 * p90 = 900.6, below the
\* floor (799.8) and above the ceiling (3400.0)
DiskFiles ==
    {NoFile, File(1000, 1000, 1000, 1), File(2000, 2500, 4503, 19),
     File(3000, 4000, 4503, 20), File(2000, 3000, 3999, 25),
     File(8000, 12000, 17000, 40)}

\* A metrics dict: wpm in tenths, energy_rms in ten-thousandths, confidence
\* in thousandths; n is the arrival number of the snapshot
Metrics(k, w, e, c, f) ==
    [n |-> k, wpm |-> w, energy_rms |-> e, confidence |-> c,
     filler_count |-> f]

\* SpeechProfile(): no entries, zero baselines; nothing asked yet
InitSpeechIdle ==
    /\ entries = <<>>
    /\ baseline_wpm = Frac(0, 1)
    /\ baseline_energy = Frac(0, 1)
    /\ arrivals = <<>>
    /\ metrics = Metrics(0, 0, 0, 0, 0)
    /\ feedback = "None"
    /\ speech_op = "init"

\* No transcription result yet
InitConfidenceIdle ==
    /\ words = <<>>
    /\ result_text = <<>>
    /\ has_word_confidence = FALSE
    /\ confidence_review = "absent"
    /\ shown = FALSE
    /\ index = 0
    /\ new_word = ""
    /\ conf_op = "init"

\* A stored file: it is missing, cannot be opened ("unreadable"), is not
\* UTF-8 text ("undecodable"), is not JSON ("unparseable"), is JSON but no
\* object ("not_an_object"), is an object with a value of the wrong type
\* ("bad_value"), or is a profile document ("valid")
Stored(k, d) == [kind |-> k, doc |-> d]
NoDoc == [none |-> TRUE]

\* No profile files, nothing loaded
InitLoadIdle ==
    /\ cadence_json = Stored("missing", NoDoc)
    /\ speech_json = Stored("missing", NoDoc)
    /\ load_result = [fn |-> "none", raised |-> "none", value |-> NoDoc]

\* An audio buffer: its number of samples and the root mean square of the
\* samples in ten-thousandths
Audio(n, r) == [samples |-> n, rms |-> r]

\* analyze has not been called
InitAnalyzeIdle ==
    /\ audio = Audio(0, 0)
    /\ transcript = <<>>
    /\ duration_s = 0
    /\ analysis = [raised |-> "none", called |-> FALSE]

\* _transcribe_and_insert has not been called
InitPipelineIdle ==
    /\ p_pc = "idle"
    /\ has_tracker = FALSE
    /\ failed = {}
    /\ cleaned = "none"
    /\ within_budget = FALSE
    /\ inserts = 0
    /\ hides = 0
    /\ error = "none"

\* Recordings the application makes in a run
MaxSessions == 2

\* A _transcribe_and_insert thread: where it is, and its local cadence
Thread(at, cadence) == [pc |-> at, cadence |-> cadence]

\* MuttRApp after __init__: nothing recorded, no tracker, no thread
InitAppIdle ==
    /\ _model_ready = FALSE
    /\ sessions = 0
    /\ recording = 0
    /\ _cadence_tracker = 0
    /\ _level_timer = FALSE
    /\ timer_pc = "idle"
    /\ timer_obj = 0
    /\ timer_raised = FALSE
    /\ updated = {}
    /\ finished = {}
    /\ late_updates = {}
    /\ threads = [s \in 1..MaxSessions |-> Thread("none", 0)]

\* Tap detection thresholds, in fiftieths of a second
DOUBLE_TAP_THRESHOLD == 20
TRIPLE_TAP_THRESHOLD == 30
TAP_DISAMBIGUATION_DELAY == 21

\* An NSTimer that calls commit at time due; no timer
Timer(commit, due) == [kind |-> commit, due |-> due]
NoTimer == Timer("none", 0)

\* HotkeyListener after __init__, with all four callbacks registered
InitHotkeyIdle ==
    /\ clock = 0
    /\ _fn_held = FALSE
    /\ _tap_timestamps = <<>>
    /\ _pending_single = FALSE
    /\ _disambiguation_timer = NoTimer
    /\ _committed = FALSE
    /\ press_times = <<>>
    /\ key_downs = 0
    /\ key_ups = 0
    /\ double_taps = 0
    /\ triple_taps = 0
    /\ _on_double_tap = TRUE
    /\ _on_triple_tap = TRUE
    /\ since_up = {}

\* Days in a run, and transcriptions in a day
MaxDays == 9
MaxCalls == 1

\* Words are counted in hundreds: the free tier's daily limit of 500
daily_limit == 5
ROLLOVER_DAYS == 7

\* A day without a row in word_usage
NoRecord == -1

\* An empty word_usage table on the first day
InitBudgetIdle ==
    /\ today = 1
    /\ word_usage = [d \in 1..MaxDays |-> NoRecord]
    /\ calls_today = 0

\* A lookup of _replace_single: the key, whether "lc in _PROPER_NOUN_MAP"
\* was true, and what _PROPER_NOUN_MAP[lc] gave
Lookup(key, stage, found, outcome) ==
    [key |-> key, stage |-> stage, found |-> found, outcome |-> outcome]
NoLookup == Lookup("", "none", FALSE, "none")

\* No add_proper_nouns call is running and no reader has looked up a word
InitRebuildIdle ==
    /\ rebuild_pc = "idle"
    /\ lookup = NoLookup

InitMoreIdle == InitSpeechIdle /\ InitConfidenceIdle /\ InitLoadIdle /\ InitAnalyzeIdle /\ InitPipelineIdle /\ InitAppIdle /\ InitHotkeyIdle /\ InitBudgetIdle /\ InitRebuildIdle

\* No recording session yet
InitCadenceIdle ==
    /\ now = 0
    /\ disk = NoFile
    /\ tracker = "none"
    /\ _in_pause = FALSE
    /\ _pause_start = NoTime
    /\ _had_speech = FALSE
    /\ _pauses_ms = <<>>
    /\ samples = <<>>
    /\ loaded = CadenceProfile
    /\ returned = CadenceProfile
    /\ writes = 0
    /\ adaptive_silence = "true"
    /\ auto_stop = 0
    /\ last = "init"

\* CadenceTracker.__init__
CadenceTracker ==
    /\ tracker = "none"
    /\ tracker' = "active"
    /\ _in_pause' = FALSE
    /\ _pause_start' = NoTime
    /\ _had_speech' = FALSE
    /\ _pauses_ms' = <<>>
    /\ samples' = <<>>
    /\ last' = "CadenceTracker"
    /\ UNCHANGED <<now, profileVars, cleanupVars, nounVars, moreVars>>

\* update with a pause that has to last longer than _MIN_PAUSE_MS
update_longer(rms_level, dt) ==
    /\ tracker = "active"
    /\ now' = now + dt
    /\ samples' = Append(samples, [t |-> now', rms |-> rms_level])
    /\ IF rms_level < _RMS_FLOOR
       THEN /\ _in_pause' = TRUE
            /\ _pause_start' = IF ~_in_pause THEN now' ELSE _pause_start
            /\ UNCHANGED <<_had_speech, _pauses_ms>>
       ELSE /\ _pauses_ms' =
                  IF /\ _in_pause /\ _pause_start # NoTime /\ _had_speech
                     /\ now' - _pause_start > _MIN_PAUSE_MS
                  THEN Append(_pauses_ms, now' - _pause_start)
                  ELSE _pauses_ms
            /\ _in_pause' = FALSE
            /\ _pause_start' = NoTime
            /\ _had_speech' = TRUE
    /\ last' = "update"
    /\ UNCHANGED <<tracker, profileVars, cleanupVars, nounVars, moreVars>>

\* CadenceTracker.update, called dt ms after the previous reading of the
\* clock
update(rms_level, dt) ==
    /\ tracker = "active"
    /\ now' = now + dt
    /\ samples' = Append(samples, [t |-> now', rms |-> rms_level])
    /\ IF rms_level < _RMS_FLOOR
       THEN /\ _in_pause' = TRUE
            /\ _pause_start' = IF ~_in_pause THEN now' ELSE _pause_start
            /\ UNCHANGED <<_had_speech, _pauses_ms>>
       ELSE /\ _pauses_ms' =
                  IF /\ _in_pause /\ _pause_start # NoTime /\ _had_speech
                     /\ now' - _pause_start >= _MIN_PAUSE_MS
                  THEN Append(_pauses_ms, now' - _pause_start)
                  ELSE _pauses_ms
            /\ _in_pause' = FALSE
            /\ _pause_start' = NoTime
            /\ _had_speech' = TRUE
    /\ last' = "update"
    /\ UNCHANGED <<tracker, profileVars, cleanupVars, nounVars, moreVars>>

\* finish_session that saves the profile after every session
finish_session_always_saves ==
    /\ tracker = "active"
    /\ tracker' = "finished"
    /\ loaded' = load_profile
    /\ returned' = IF _pauses_ms = <<>> THEN load_profile
                   ELSE Merged(load_profile, _pauses_ms)
    /\ disk' \in to_dict(returned')
    /\ writes' = writes + 1
    /\ last' = "finish_session"
    /\ UNCHANGED <<now, _in_pause, _pause_start, _had_speech, _pauses_ms,
                   samples, adaptive_silence, auto_stop, cleanupVars,
                   nounVars, moreVars>>

\* CadenceTracker.finish_session
finish_session ==
    /\ tracker = "active"
    /\ tracker' = "finished"
    /\ loaded' = load_profile
    /\ IF _pauses_ms = <<>>
       THEN /\ returned' = load_profile
            /\ UNCHANGED <<disk, writes>>
       ELSE /\ returned' = Merged(load_profile, _pauses_ms)
            /\ disk' \in to_dict(returned')
            /\ writes' = writes + 1
    /\ last' = "finish_session"
    /\ UNCHANGED <<now, _in_pause, _pause_start, _had_speech, _pauses_ms,
                   samples, adaptive_silence, auto_stop, cleanupVars,
                   nounVars, moreVars>>

\* The tracker is dropped without finish_session
DropTracker ==
    /\ tracker = "active"
    /\ tracker' = "dropped"
    /\ last' = "drop"
    /\ UNCHANGED <<now, _in_pause, _pause_start, _had_speech, _pauses_ms,
                   samples, profileVars, cleanupVars, nounVars, moreVars>>

\* get_auto_stop_ms with a profile that is trained only above _MIN_SAMPLES
get_auto_stop_ms_above(cfg) ==
    /\ tracker \in {"finished", "dropped"}
    /\ adaptive_silence' = cfg
    /\ auto_stop' =
          IF cfg = "false" THEN _DEFAULT_AUTO_STOP_MS
          ELSE IF load_profile.sample_count <= _MIN_SAMPLES
          THEN _DEFAULT_AUTO_STOP_MS
          ELSE Clamp((2 * load_profile.p90_pause_ms.num)
                         \div load_profile.p90_pause_ms.den)
    /\ last' = "get_auto_stop_ms"
    /\ UNCHANGED <<trackerVars, disk, loaded, returned, writes, cleanupVars,
                   nounVars, moreVars>>

\* get_auto_stop_ms, asked for once the session is over
get_auto_stop_ms(cfg) ==
    /\ tracker \in {"finished", "dropped"}
    /\ adaptive_silence' = cfg
    /\ auto_stop' =
          IF cfg = "false" THEN _DEFAULT_AUTO_STOP_MS
          ELSE IF ~is_trained(load_profile) THEN _DEFAULT_AUTO_STOP_MS
          ELSE Clamp((2 * load_profile.p90_pause_ms.num)
                         \div load_profile.p90_pause_ms.den)
    /\ last' = "get_auto_stop_ms"
    /\ UNCHANGED <<trackerVars, disk, loaded, returned, writes, cleanupVars,
                   nounVars, moreVars>>

\* The module as imported: no custom proper nouns
InitNouns ==
    /\ CUSTOM_PROPER_NOUNS = <<>>
    /\ _PROPER_NOUN_MAP = _rebuild_proper_noun_map(<<>>)

\* The text cleanup is idle while the cadence engine runs
InitCleanupIdle ==
    /\ text = <<>>
    /\ level = 1
    /\ result = <<>>
    /\ previous = <<>>
    /\ pc = "start"
    /\ InitNouns

---------------------------------------------------------------------------
(* Pause detection: one tracker fed with levels at irregular intervals     *)

MaxUpdates == 6
RmsLevels == {4, 5, 9}
Ticks == {40, 60}

InitTracker == InitCleanupIdle /\ InitCadenceIdle /\ InitMoreIdle

NextTracker ==
    \/ CadenceTracker
    \/ \E rms_level \in RmsLevels, dt \in Ticks :
          Len(samples) < MaxUpdates /\ update(rms_level, dt)

SpecTracker == InitTracker /\ [][NextTracker]_vars

---------------------------------------------------------------------------
(* A recording session on top of a stored profile: levels every 100 ms,    *)
(* then finish_session or a dropped tracker, then get_auto_stop_ms         *)

MaxSessionUpdates == 11
SessionLevels == {4, 5}
SessionTicks == {100}

InitCadence ==
    /\ InitCleanupIdle
    /\ InitMoreIdle
    /\ now = 0
    /\ disk \in DiskFiles
    /\ tracker = "none"
    /\ _in_pause = FALSE
    /\ _pause_start = NoTime
    /\ _had_speech = FALSE
    /\ _pauses_ms = <<>>
    /\ samples = <<>>
    /\ loaded = CadenceProfile
    /\ returned = CadenceProfile
    /\ writes = 0
    /\ adaptive_silence = "true"
    /\ auto_stop = 0
    /\ last = "init"

NextCadence ==
    \/ CadenceTracker
    \/ \E rms_level \in SessionLevels, dt \in SessionTicks :
          Len(samples) < MaxSessionUpdates /\ update(rms_level, dt)
    \/ finish_session
    \/ DropTracker
    \/ \E cfg \in Configs : get_auto_stop_ms(cfg)

SpecCadence == InitCadence /\ [][NextCadence]_vars

---------------------------------------------------------------------------
(* Cadence coaching (muttr/cadence.py): the rolling SpeechProfile and the   *)
(* label get_feedback gives a new snapshot.  The baselines are exact       *)
(* fractions in the units of the snapshots.                                *)

_SPEECH_PROFILE_WINDOW == 100
_SPEECH_PROFILE_MIN_ENTRIES == 5

FEEDBACK_FAST == "Fast"
FEEDBACK_QUIET == "Quiet"
FEEDBACK_CLEAR == "Clear"
FEEDBACK_STEADY == "Steady"

\* sq[-n:]
LastN(sq, n) ==
    IF Len(sq) > n THEN SubSeq(sq, Len(sq) - n + 1, Len(sq)) ELSE sq

Positive(x) == x > 0

\* The values of every entry, zero or not
PositiveValues_all(es, key) == [i \in 1..Len(es) |-> es[i][key]]

\* [e[key] for e in es if e.get(key, 0) > 0]
PositiveValues(es, key) ==
    SelectSeq([i \in 1..Len(es) |-> es[i][key]], Positive)

\* sum(vals) / len(vals) if vals else 0.0
Mean(vals) == IF vals = <<>> THEN Frac(0, 1) ELSE Frac(Sum(vals), Len(vals))

\* SpeechProfile.from_dict at start-up
SpeechProfile_from_dict(d) ==
    /\ speech_op = "init"
    /\ entries' = LastN(d.entries, _SPEECH_PROFILE_WINDOW)
    /\ baseline_wpm' = Frac(d.baseline_wpm, 1)
    /\ baseline_energy' = Frac(d.baseline_energy, 1)
    /\ arrivals' = d.entries
    /\ speech_op' = "from_dict"
    /\ UNCHANGED <<metrics, feedback, notSpeech>>

\* update that never trims the entries
SpeechProfile_update_untrimmed(m) ==
    /\ entries' = Append(entries, m)
    /\ baseline_wpm' = Mean(PositiveValues(entries', "wpm"))
    /\ baseline_energy' = Mean(PositiveValues(entries', "energy_rms"))
    /\ arrivals' = Append(arrivals, m)
    /\ speech_op' = "update"
    /\ UNCHANGED <<metrics, feedback, notSpeech>>

\* SpeechProfile.update with _recompute_baselines
SpeechProfile_update(m) ==
    /\ entries' = LastN(Append(entries, m), _SPEECH_PROFILE_WINDOW)
    /\ baseline_wpm' = Mean(PositiveValues(entries', "wpm"))
    /\ baseline_energy' = Mean(PositiveValues(entries', "energy_rms"))
    /\ arrivals' = Append(arrivals, m)
    /\ speech_op' = "update"
    /\ UNCHANGED <<metrics, feedback, notSpeech>>

has_baseline == Len(entries) >= _SPEECH_PROFILE_MIN_ENTRIES

\* The rules after Quiet
ClearOrSteady(m) ==
    IF m.confidence > 920 /\ m.filler_count = 0 THEN FEEDBACK_CLEAR
    ELSE IF m.confidence > 800 THEN FEEDBACK_STEADY
    ELSE "None"

\* The labels get_feedback can return.  1.25 is a binary fraction, 0.4 is
\* not: baseline_energy * 0.4 is the exact product rounded to a float, so
\* for an energy equal to the exact product the comparison goes either way
\* (0.04 < 0.1 * 0.4 is true, 0.0002 < 0.0005 * 0.4 is false)
LabelsFor(trained, wpm, energy, m) ==
    IF ~trained THEN {"None"}
    ELSE IF /\ wpm.num > 0
            /\ 4 * m.wpm * wpm.den > 5 * wpm.num
    THEN {FEEDBACK_FAST}
    ELSE IF /\ energy.num > 0
            /\ 5 * m.energy_rms * energy.den < 2 * energy.num
    THEN {FEEDBACK_QUIET}
    ELSE IF /\ energy.num > 0
            /\ 5 * m.energy_rms * energy.den = 2 * energy.num
    THEN {FEEDBACK_QUIET, ClearOrSteady(m)}
    ELSE {ClearOrSteady(m)}

\* The labels for the profile as it stands
Feedbacks(m) == LabelsFor(has_baseline, baseline_wpm, baseline_energy, m)

\* SpeechProfile.get_feedback
get_feedback(m) ==
    /\ metrics' = m
    /\ feedback' \in Feedbacks(m)
    /\ speech_op' = "get_feedback"
    /\ UNCHANGED <<entries, baseline_wpm, baseline_energy, arrivals,
                   notSpeech>>

InitIdle == InitCleanupIdle /\ InitCadenceIdle /\ InitMoreIdle

---------------------------------------------------------------------------
(* The rolling window: a profile read from a document of some length, or   *)
(* a new one, is given one snapshot after the other                        *)

MaxArrivals == 120
DocLengths == {0, 1, 99, 100, 101, 119, 150}

\* The k-th snapshot
Snapshot(k) == Metrics(k, 1000 + 10 * (k % 3), 500, 850, k % 2)

Documents ==
    {[entries |-> [k \in 1..len |-> Snapshot(k)], baseline_wpm |-> b,
      baseline_energy |-> 500] : len \in DocLengths, b \in {0, 1010}}

NextWindow ==
    \/ \E d \in Documents : SpeechProfile_from_dict(d)
    \/ /\ Len(arrivals) < MaxArrivals
       /\ SpeechProfile_update(Snapshot(Len(arrivals) + 1))

SpecWindow == InitIdle /\ [][NextWindow]_vars

---------------------------------------------------------------------------
(* The baselines: as the rolling window, with snapshots of which some have *)
(* no words (wpm 0.0) and some no sound (energy_rms 0.0)                   *)

Sample(k) ==
    Metrics(k, IF k % 4 = 0 THEN 0 ELSE 900 + 10 * (k % 5),
            IF k % 3 = 0 THEN 0 ELSE 100 * ((k % 7) + 1), 850, k % 2)

Samples ==
    {[entries |-> [k \in 1..len |-> Sample(k)], baseline_wpm |-> b,
      baseline_energy |-> 500] : len \in DocLengths, b \in {0, 1010}}

NextBaseline ==
    \/ \E d \in Samples : SpeechProfile_from_dict(d)
    \/ /\ Len(arrivals) < MaxArrivals
       /\ SpeechProfile_update(Sample(Len(arrivals) + 1))

SpecBaseline == InitIdle /\ [][NextBaseline]_vars

---------------------------------------------------------------------------
(* Feedback: a new profile is trained with a few snapshots and then asked  *)
(* for the label of one more                                               *)

MaxTraining == 6

\* wpm 100.0 or none, energy 0.1 or none
Training ==
    {Metrics(0, 1000, 1000, 850, 1), Metrics(0, 0, 1000, 850, 1),
     Metrics(0, 1000, 0, 850, 1)}

\* wpm at and above 125 % of 100.0, energy around 40 % of 0.1, confidence
\* at and above 0.8 and 0.92
Asked ==
    {Metrics(0, w, e, c, f) :
        w \in {0, 1250, 1251}, e \in {0, 390, 400, 410},
        c \in {800, 810, 920, 930}, f \in {0, 1}}

NextFeedback ==
    \/ \E t \in Training :
          /\ speech_op # "get_feedback"
          /\ Len(arrivals) < MaxTraining
          /\ SpeechProfile_update([t EXCEPT !.n = Len(arrivals) + 1])
    \/ \E m \in Asked : speech_op # "get_feedback" /\ get_feedback(m)

SpecFeedback == InitIdle /\ [][NextFeedback]_vars

---------------------------------------------------------------------------
(* Confidence review (muttr/confidence.py).  Probabilities are in          *)
(* hundredths; index is 0-based as in the source.                          *)

DEFAULT_HIGH_THRESHOLD == 70
DEFAULT_LOW_THRESHOLD == 40

TIER_HIGH == "high"
TIER_MEDIUM == "medium"
TIER_LOW == "low"

WordInfo(w, s, e, p) == [word |-> w, start |-> s, end |-> e, probability |-> p]

\* WordInfo.tier with the bands open at their lower ends
tier_above(w) ==
    IF w.probability > DEFAULT_HIGH_THRESHOLD THEN TIER_HIGH
    ELSE IF w.probability > DEFAULT_LOW_THRESHOLD THEN TIER_MEDIUM
    ELSE TIER_LOW

\* WordInfo.tier
tier(w) ==
    IF w.probability >= DEFAULT_HIGH_THRESHOLD THEN TIER_HIGH
    ELSE IF w.probability >= DEFAULT_LOW_THRESHOLD THEN TIER_MEDIUM
    ELSE TIER_LOW

\* TranscriptionResult.has_low_confidence_words
has_low_confidence_words ==
    \E i \in 1..Len(words) : tier(words[i]) # TIER_HIGH

\* " ".join(w.word for w in ws)
JoinWords(ws) == Join([i \in 1..Len(ws) |-> <<ws[i].word>>], <<" ">>)

\* The transcriber delivers a result: TranscriptionResult(text, words,
\* has_word_confidence).  Its text is the words joined, or that with the
\* leading space of the decoder
Transcribed(ws, lead, hwc) ==
    /\ conf_op = "init"
    /\ words' = ws
    /\ result_text' = lead \o JoinWords(ws)
    /\ has_word_confidence' = hwc
    /\ conf_op' = "TranscriptionResult"
    /\ UNCHANGED <<confidence_review, shown, index, new_word, notConf>>

\* should_show_review without the test of has_word_confidence
should_show_review_any(cfg) ==
    /\ conf_op # "init"
    /\ confidence_review' = cfg
    /\ shown' = IF ~has_low_confidence_words THEN FALSE
                ELSE cfg = "true"
    /\ conf_op' = "should_show_review"
    /\ UNCHANGED <<words, result_text, has_word_confidence, index, new_word,
                   notConf>>

\* should_show_review(result); cfg is the confidence_review key of the
\* configuration: "true", "false", "absent", or "raises" when config.load()
\* raises
should_show_review(cfg) ==
    /\ conf_op # "init"
    /\ confidence_review' = cfg
    /\ shown' = IF ~has_word_confidence THEN FALSE
                ELSE IF ~has_low_confidence_words THEN FALSE
                ELSE cfg = "true"
    /\ conf_op' = "should_show_review"
    /\ UNCHANGED <<words, result_text, has_word_confidence, index, new_word,
                   notConf>>

\* The word that replaces words[i + 1]
Corrected(i, w) ==
    WordInfo(w, words[i + 1].start, words[i + 1].end, 100)

\* replace_word with an index that counts from the end when negative
replace_word_wrapping(i, w) ==
    /\ conf_op # "init"
    /\ index' = i
    /\ new_word' = w
    /\ IF 0 <= i /\ i < Len(words)
       THEN /\ words' = [words EXCEPT ![i + 1] = Corrected(i, w)]
            /\ result_text' = JoinWords(words')
       ELSE IF 0 - Len(words) <= i /\ i < 0
       THEN /\ words' = [words EXCEPT ![Len(words) + i + 1] =
                            Corrected(Len(words) + i, w)]
            /\ result_text' = JoinWords(words')
       ELSE UNCHANGED <<words, result_text>>
    /\ conf_op' = "replace_word"
    /\ UNCHANGED <<has_word_confidence, confidence_review, shown, notConf>>

\* TranscriptionResult.replace_word(index, new_word)
replace_word(i, w) ==
    /\ conf_op # "init"
    /\ index' = i
    /\ new_word' = w
    /\ IF 0 <= i /\ i < Len(words)
       THEN /\ words' = [words EXCEPT ![i + 1] = Corrected(i, w)]
            /\ result_text' = JoinWords(words')
       ELSE UNCHANGED <<words, result_text>>
    /\ conf_op' = "replace_word"
    /\ UNCHANGED <<has_word_confidence, confidence_review, shown, notConf>>

MaxWords == 2
Probabilities == {39, 40, 69, 70}

\* The word lists the transcriber can deliver: word i is spoken from 10 i
\* to 10 i + 5
WordLists ==
    UNION {[1..k -> {"a", "b"} \X Probabilities] : k \in 0..MaxWords}
Timed(ws) ==
    [i \in 1..Len(ws) |-> WordInfo(ws[i][1], 10 * i, 10 * i + 5, ws[i][2])]

ReviewConfigs == {"true", "false", "absent", "raises"}

NextConfidence ==
    \/ \E ws \in WordLists, lead \in {<<>>, <<" ">>}, hwc \in BOOLEAN :
          Transcribed(Timed(ws), lead, hwc)
    \/ \E cfg \in ReviewConfigs : should_show_review(cfg)
    \/ \E i \in -3..MaxWords, w \in {"c"} : replace_word(i, w)

SpecConfidence == InitIdle /\ [][NextConfidence]_vars

---------------------------------------------------------------------------
(* Reading the profile files (muttr/cadence.py): load_profile and          *)
(* load_speech_profile on a file in any condition                          *)

\* What open, json.load and from_dict do with a file that is no valid
\* document: the exception they raise, or "none" when there is no file
Failure(kind) ==
    CASE kind = "missing" -> "none"
      [] kind = "unreadable" -> "OSError"
      [] kind = "undecodable" -> "UnicodeDecodeError"
      [] kind = "unparseable" -> "JSONDecodeError"
      [] kind = "not_an_object" -> "AttributeError"
      [] kind = "bad_value" -> "ValueError"
      [] kind = "valid" -> "none"

\* except (json.JSONDecodeError, OSError, KeyError): pass
Caught == {"JSONDecodeError", "OSError", "KeyError"}

Returns(f, v) == [fn |-> f, raised |-> "none", value |-> v]
Raises(f, e) == [fn |-> f, raised |-> e, value |-> NoDoc]

\* The outcome of a load function on the stored file, given the default
\* profile and what from_dict makes of a valid document
Load(f, file, default, parsed) ==
    IF file.kind = "valid" THEN Returns(f, parsed)
    ELSE IF Failure(file.kind) = "none" \/ Failure(file.kind) \in Caught
    THEN Returns(f, default)
    ELSE Raises(f, Failure(file.kind))

\* SpeechProfile()
SpeechProfile ==
    [entries |-> <<>>, baseline_wpm |-> Frac(0, 1),
     baseline_energy |-> Frac(0, 1)]

\* SpeechProfile.from_dict as a value
speech_from_dict(d) ==
    [entries |-> LastN(d.entries, _SPEECH_PROFILE_WINDOW),
     baseline_wpm |-> Frac(d.baseline_wpm, 1),
     baseline_energy |-> Frac(d.baseline_energy, 1)]

\* The file at _cadence_path() is replaced, removed or damaged
StoreCadenceFile(file) ==
    /\ cadence_json' = file
    /\ UNCHANGED <<speech_json, load_result, notLoad>>

\* The file at _speech_profile_path() is replaced, removed or damaged
StoreSpeechFile(file) ==
    /\ speech_json' = file
    /\ UNCHANGED <<cadence_json, load_result, notLoad>>

\* load_profile()
load_profile_call ==
    /\ load_result' =
          Load("load_profile", cadence_json, CadenceProfile,
               IF cadence_json.kind = "valid" THEN from_dict(cadence_json.doc)
               ELSE CadenceProfile)
    /\ UNCHANGED <<cadence_json, speech_json, notLoad>>

\* load_speech_profile()
load_speech_profile ==
    /\ load_result' =
          Load("load_speech_profile", speech_json, SpeechProfile,
               IF speech_json.kind = "valid"
               THEN speech_from_dict(speech_json.doc)
               ELSE SpeechProfile)
    /\ UNCHANGED <<cadence_json, speech_json, notLoad>>

Damaged ==
    {"missing", "unreadable", "undecodable", "unparseable", "not_an_object",
     "bad_value"}

CadenceFiles ==
    {Stored(k, NoDoc) : k \in Damaged}
        \cup {Stored("valid", d) : d \in DiskFiles \ {NoFile}}

SpeechFiles ==
    {Stored(k, NoDoc) : k \in Damaged}
        \cup {Stored("valid", d) :
                 d \in {x \in Documents : Len(x.entries) \in {0, 1, 101}}}

NextLoad ==
    \/ \E file \in CadenceFiles : StoreCadenceFile(file)
    \/ \E file \in SpeechFiles : StoreSpeechFile(file)
    \/ load_profile_call
    \/ load_speech_profile

SpecLoad == InitIdle /\ [][NextLoad]_vars

---------------------------------------------------------------------------
(* The cleanup pipeline as a state machine: a caller cleans a transcript   *)
(* at some level and then cleans the result again at the same level.       *)

MaxChunks == 3

\* The texts of at most n chunks of V separated by single spaces; an empty
\* chunk gives a leading, trailing or doubled space
ChunkTexts(V, n) ==
    {Join(cs, <<" ">>) : cs \in UNION {[1..k -> V] : k \in 0..n}}

GeneralVocab ==
    {<<>>, <<"\n">>, <<"a">>, <<"um">>, <<".">>, <<"http://x">>,
     <<"a@b.c">>, <<BACKTICK, "um", BACKTICK>>}
ListVocab ==
    {<<"number">>, <<"one">>, <<"first">>, <<"bullet">>, <<"a">>,
     <<"one", ")">>, <<"www.y">>}
FillerVocab == {<<"you">>, <<"um">>, <<"know">>, <<"you", " ", "know">>, <<"a">>}

Inputs ==
    {NoneText} \cup ChunkTexts(GeneralVocab, MaxChunks)
               \cup ChunkTexts(ListVocab, MaxChunks)
               \cup ChunkTexts(FillerVocab, MaxChunks + 1)

\* Any integer may be passed as level; clean_text clamps it to 0..2
Levels == -1..3

Init ==
    /\ text \in Inputs
    /\ level = 1
    /\ result = <<>>
    /\ previous = <<>>
    /\ pc = "start"
    /\ InitNouns
    /\ InitCadenceIdle
    /\ InitMoreIdle

\* result = clean_text(text, level)
CleanText(l) ==
    /\ pc = "start"
    /\ level' = l
    /\ result' = clean_text(text, l)
    /\ pc' = "cleaned"
    /\ UNCHANGED <<text, previous, nounVars, cadenceVars, moreVars>>

\* result = clean_text(result, level): the output is cleaned again
Reclean ==
    /\ pc = "cleaned"
    /\ previous' = result
    /\ result' = clean_text(result, level)
    /\ pc' = "recleaned"
    /\ UNCHANGED <<text, level, nounVars, cadenceVars, moreVars>>

Next ==
    \/ \E l \in Levels : CleanText(l)
    \/ Reclean

Spec == Init /\ [][Next]_vars

---------------------------------------------------------------------------
(* Speech metrics (muttr/cadence.py): SpeechMetrics.analyze.  duration_s   *)
(* is in whole seconds, confidence in thousandths.                         *)

\* _FILLER_WORDS of cadence.py, in the order of the alternation
_FILLER_WORDS ==
    <<<<"um">>, <<"uh">>, <<"like">>, <<"you", " ", "know">>,
      <<"basically">>, <<"actually">>, <<"literally">>,
      <<"i", " ", "mean">>, <<"sort", " ", "of">>, <<"kind", " ", "of">>>>

\* len(_FILLER_PATTERN.findall(t)): the matches from atom i on, found from
\* left to right without overlap
RECURSIVE FillerCount(_, _)
FillerCount(t, i) ==
    IF i > Len(t) THEN 0
    ELSE IF AnyWordsEnd(t, i, _FILLER_WORDS) > 0
    THEN 1 + FillerCount(t, AnyWordsEnd(t, i, _FILLER_WORDS) + 1)
    ELSE FillerCount(t, i + 1)

\* len(t.split()): the runs of atoms that are not whitespace
WordCount(t) ==
    Cardinality({i \in 1..Len(t) :
                    ~IsSpace(t[i]) /\ (i = 1 \/ IsSpace(t[i - 1]))})

\* The dicts analyze can return for a transcript that is a string
Analyses(a, t, d, c) ==
    {[raised |-> "none", called |-> TRUE, wpm |-> w,
      energy_rms |-> IF a.samples > 0 THEN a.rms ELSE 0,
      confidence |-> c, filler_count |-> FillerCount(t, 1),
      word_count |-> IF StripWs(t) # <<>> THEN WordCount(t) ELSE 0] :
        w \in IF d > 0
              THEN RoundTenths(Frac(
                       60 * (IF StripWs(t) # <<>> THEN WordCount(t) ELSE 0),
                       d))
              ELSE {0}}

\* SpeechMetrics.analyze(audio, transcript, duration_s, confidence); with
\* None as transcript, transcript.strip() raises
analyze(a, t, d, c) ==
    /\ audio' = a
    /\ transcript' = t
    /\ duration_s' = d
    /\ analysis' \in
          IF t = NoneText
          THEN {[raised |-> "AttributeError", called |-> TRUE]}
          ELSE Analyses(a, t, d, c)
    /\ UNCHANGED notAnalyze

Transcripts ==
    {NoneText, <<>>, <<" ">>, <<" ", "\n">>}
        \cup ChunkTexts({<<"um">>, <<"You", " ", "know">>, <<"a">>,
                         <<"a", ",">>}, 2)
Durations == {-1, 0, 7, 60}
Audios == {Audio(0, 0), Audio(100, 0), Audio(100, 500)}

NextAnalyze ==
    /\ ~analysis.called
    /\ \E a \in Audios, t \in Transcripts, d \in Durations, c \in {0, 850} :
          analyze(a, t, d, c)

SpecAnalyze == InitIdle /\ [][NextAnalyze]_vars

---------------------------------------------------------------------------
(* Cadence coaching in the pipeline (muttr/app.py): every completed        *)
(* transcription is analyzed, added to the stored speech profile and given *)
(* a label                                                                 *)

MaxTranscriptions == 6

\* Loud and soft recordings; one word, three words, a filler
CoachingAudios == {Audio(100, 1000), Audio(100, 300)}
CoachingTexts == {<<"a">>, <<"a", " ", "b", " ", "a">>, <<"um">>}
CoachingDurations == {60}

\* metrics = SpeechMetrics.analyze(audio, cleaned, duration): the call
\* passes no confidence, so the parameter has its default 0.0
PipelineMetrics(k, a, t, d) ==
    {Metrics(k, r.wpm, r.energy_rms, r.confidence, r.filler_count) :
        r \in Analyses(a, t, d, 0)}

\* profile = load_speech_profile(); profile.update(metrics);
\* feedback = profile.get_feedback(metrics); save_speech_profile(profile)
CadenceCoaching(a, t, d) ==
    /\ Len(arrivals) < MaxTranscriptions
    /\ \E m \in PipelineMetrics(Len(arrivals) + 1, a, t, d) :
          /\ entries' = LastN(Append(entries, m), _SPEECH_PROFILE_WINDOW)
          /\ baseline_wpm' = Mean(PositiveValues(entries', "wpm"))
          /\ baseline_energy' = Mean(PositiveValues(entries', "energy_rms"))
          /\ arrivals' = Append(arrivals, m)
          /\ metrics' = m
          /\ feedback' \in
                LabelsFor(Len(entries') >= _SPEECH_PROFILE_MIN_ENTRIES,
                          baseline_wpm', baseline_energy', m)
          /\ speech_op' = "get_feedback"
    /\ UNCHANGED notSpeech

NextCoaching ==
    \E a \in CoachingAudios, t \in CoachingTexts, d \in CoachingDurations :
        CadenceCoaching(a, t, d)

SpecCoaching == InitIdle /\ [][NextCoaching]_vars

---------------------------------------------------------------------------
(* The transcription pipeline (muttr/app.py): one call of                  *)
(* MuttRApp._transcribe_and_insert, stage by stage.  Every call the        *)
(* function makes either returns or raises an Exception.                   *)

\* The thread starts with audio of a recording; the session has a tracker
\* or has none
TI_Start(tracked) ==
    /\ p_pc = "idle"
    /\ has_tracker' = tracked
    /\ p_pc' = "finish_session"
    /\ UNCHANGED <<failed, cleaned, within_budget, inserts, hides, error,
                   notPipeline>>

\* An ancillary stage whose exception reaches the outer except clause
Ancillary_uncaught(stage, next, raises) ==
    /\ p_pc = stage
    /\ failed' = IF raises THEN failed \cup {stage} ELSE failed
    /\ p_pc' = IF raises THEN "finally" ELSE next
    /\ error' = IF raises THEN stage ELSE error
    /\ UNCHANGED <<has_tracker, cleaned, within_budget, inserts, hides,
                   notPipeline>>

\* An ancillary stage in its own try / except Exception: pass
Ancillary(stage, next, raises) ==
    /\ p_pc = stage
    /\ failed' = IF raises THEN failed \cup {stage} ELSE failed
    /\ p_pc' = next
    /\ UNCHANGED <<has_tracker, cleaned, within_budget, inserts, hides, error,
                   notPipeline>>

\* cadence.finish_session(), when there is a tracker
TI_FinishSession(raises) ==
    /\ raises => has_tracker
    /\ Ancillary("finish_session", "build_context_prompt", raises)

\* initial_prompt = build_context_prompt()
TI_BuildContextPrompt(raises) ==
    Ancillary("build_context_prompt", "transcribe", raises)

\* transcriber.transcribe, TranscriptionResult, clean_text with
\* self.cleanup_level: they raise, or give an empty or a non-empty cleaned
\* text
TI_Transcribe(outcome) ==
    /\ p_pc = "transcribe"
    /\ cleaned' = IF outcome = "raises" THEN "none" ELSE outcome
    /\ error' = IF outcome = "raises" THEN "transcribe" ELSE error
    /\ p_pc' = IF outcome = "text" THEN "add_entry" ELSE "finally"
    /\ UNCHANGED <<has_tracker, failed, within_budget, inserts, hides,
                   notPipeline>>

\* history.add_entry(...)
TI_AddEntry(raises) == Ancillary("add_entry", "coaching", raises)

\* SpeechMetrics.analyze, load_speech_profile, update, get_feedback,
\* save_speech_profile
TI_Coaching(raises) == Ancillary("coaching", "is_over_budget", raises)

\* budget.is_over_budget(), then insert_text is scheduled on the main
\* thread unless the budget is exceeded
TI_Budget(outcome) ==
    /\ p_pc = "is_over_budget"
    /\ within_budget' = (outcome = "within")
    /\ error' = IF outcome = "raises" THEN "is_over_budget" ELSE error
    /\ inserts' = IF outcome = "within" THEN inserts + 1 ELSE inserts
    /\ p_pc' = IF outcome = "within" THEN "record_usage" ELSE "finally"
    /\ UNCHANGED <<has_tracker, failed, cleaned, hides, notPipeline>>

\* budget.record_usage(word_count)
TI_RecordUsage(raises) == Ancillary("record_usage", "finally", raises)

\* finally: overlay.hide is scheduled and the function returns
TI_Finally ==
    /\ p_pc = "finally"
    /\ hides' = hides + 1
    /\ p_pc' = "returned"
    /\ UNCHANGED <<has_tracker, failed, cleaned, within_budget, inserts,
                   error, notPipeline>>

NextPipeline ==
    \/ \E tracked \in BOOLEAN : TI_Start(tracked)
    \/ \E raises \in BOOLEAN : TI_FinishSession(raises)
    \/ \E raises \in BOOLEAN : TI_BuildContextPrompt(raises)
    \/ \E outcome \in {"text", "empty", "raises"} : TI_Transcribe(outcome)
    \/ \E raises \in BOOLEAN : TI_AddEntry(raises)
    \/ \E raises \in BOOLEAN : TI_Coaching(raises)
    \/ \E outcome \in {"within", "over", "raises"} : TI_Budget(outcome)
    \/ \E raises \in BOOLEAN : TI_RecordUsage(raises)
    \/ TI_Finally

SpecPipeline == InitIdle /\ [][NextPipeline]_vars

---------------------------------------------------------------------------
(* The application's recording sessions (muttr/app.py): the callbacks of   *)
(* the main thread run one at a time; the steps of the background          *)
(* _transcribe_and_insert threads interleave with them.                    *)

\* run(): the background _load_model thread sets _model_ready
ModelLoaded ==
    /\ ~_model_ready
    /\ _model_ready' = TRUE
    /\ UNCHANGED <<sessions, recording, _cadence_tracker, _level_timer,
                   timer_pc, timer_obj, timer_raised, updated, finished,
                   late_updates, threads, notApp>>

\* _on_fn_down: a new CadenceTracker goes into the field, the recorder and
\* the level timer start
_on_fn_down ==
    /\ timer_pc = "idle"
    /\ _model_ready
    /\ recording = 0
    /\ sessions < MaxSessions
    /\ sessions' = sessions + 1
    /\ _cadence_tracker' = sessions + 1
    /\ recording' = sessions + 1
    /\ _level_timer' = TRUE
    /\ UNCHANGED <<_model_ready, timer_pc, timer_obj, timer_raised, updated,
                   finished, late_updates, threads, notApp>>

\* _on_fn_up: the recorder and the level timer stop; audio of 1600 samples
\* or more goes to a new _transcribe_and_insert thread
_on_fn_up(long) ==
    /\ timer_pc = "idle"
    /\ recording # 0
    /\ recording' = 0
    /\ _level_timer' = FALSE
    /\ threads' = IF long
                  THEN [threads EXCEPT ![recording] = Thread("started", 0)]
                  ELSE threads
    /\ UNCHANGED <<_model_ready, sessions, _cadence_tracker, timer_pc,
                   timer_obj, timer_raised, updated, finished, late_updates,
                   notApp>>

\* update_level: if self._cadence_tracker is not None
update_level_test ==
    /\ _level_timer
    /\ timer_pc = "idle"
    /\ _cadence_tracker # 0
    /\ timer_pc' = "checked"
    /\ UNCHANGED <<_model_ready, sessions, recording, _cadence_tracker,
                   _level_timer, timer_obj, timer_raised, updated, finished,
                   late_updates, threads, notApp>>

\* update_level: self._cadence_tracker is read again for the call; None has
\* no update attribute
update_level_load ==
    /\ timer_pc = "checked"
    /\ timer_obj' = _cadence_tracker
    /\ timer_pc' = IF _cadence_tracker = 0 THEN "idle" ELSE "loaded"
    /\ timer_raised' = (timer_raised \/ _cadence_tracker = 0)
    /\ UNCHANGED <<_model_ready, sessions, recording, _cadence_tracker,
                   _level_timer, updated, finished, late_updates, threads,
                   notApp>>

\* update_level: .update(level) runs on the tracker that was read
update_level_call ==
    /\ timer_pc = "loaded"
    /\ updated' = updated \cup {timer_obj}
    /\ late_updates' = IF timer_obj \in finished
                       THEN late_updates \cup {timer_obj}
                       ELSE late_updates
    /\ timer_pc' = "idle"
    /\ timer_obj' = 0
    /\ UNCHANGED <<_model_ready, sessions, recording, _cadence_tracker,
                   _level_timer, timer_raised, finished, threads, notApp>>

\* _transcribe_and_insert: cadence = self._cadence_tracker
TI_TakeTracker(t) ==
    /\ threads[t].pc = "started"
    /\ threads' = [threads EXCEPT ![t] = Thread("taken", _cadence_tracker)]
    /\ UNCHANGED <<_model_ready, sessions, recording, _cadence_tracker,
                   _level_timer, timer_pc, timer_obj, timer_raised, updated,
                   finished, late_updates, notApp>>

\* _transcribe_and_insert: self._cadence_tracker = None
TI_ClearTracker(t) ==
    /\ threads[t].pc = "taken"
    /\ _cadence_tracker' = 0
    /\ threads' = [threads EXCEPT ![t].pc = "cleared"]
    /\ UNCHANGED <<_model_ready, sessions, recording, _level_timer, timer_pc,
                   timer_obj, timer_raised, updated, finished, late_updates,
                   notApp>>

\* _transcribe_and_insert: if cadence is not None: cadence.finish_session()
TI_FinishTracker(t) ==
    /\ threads[t].pc = "cleared"
    /\ finished' = IF threads[t].cadence # 0
                   THEN finished \cup {threads[t].cadence}
                   ELSE finished
    /\ threads' = [threads EXCEPT ![t].pc = "transcribing"]
    /\ UNCHANGED <<_model_ready, sessions, recording, _cadence_tracker,
                   _level_timer, timer_pc, timer_obj, timer_raised, updated,
                   late_updates, notApp>>

\* _transcribe_and_insert: the rest of the pipeline, to its return
TI_Return(t) ==
    /\ threads[t].pc = "transcribing"
    /\ threads' = [threads EXCEPT ![t].pc = "returned"]
    /\ UNCHANGED <<_model_ready, sessions, recording, _cadence_tracker,
                   _level_timer, timer_pc, timer_obj, timer_raised, updated,
                   finished, late_updates, notApp>>

NextApp ==
    \/ ModelLoaded
    \/ _on_fn_down
    \/ \E long \in BOOLEAN : _on_fn_up(long)
    \/ update_level_test
    \/ update_level_load
    \/ update_level_call
    \/ \E t \in 1..MaxSessions : TI_TakeTracker(t)
    \/ \E t \in 1..MaxSessions : TI_ClearTracker(t)
    \/ \E t \in 1..MaxSessions : TI_FinishTracker(t)
    \/ \E t \in 1..MaxSessions : TI_Return(t)

SpecApp == InitIdle /\ [][NextApp]_vars

---------------------------------------------------------------------------
(* The fn key listener (muttr/hotkey.py), as the application builds it:    *)
(* on_key_down, on_key_up, on_double_tap and on_triple_tap are all         *)
(* registered.  Key events and timer callbacks run one at a time on the    *)
(* main run loop; a timer fires when its time has come.                    *)

\* fn presses in a run, and the length of a run in fiftieths of a second
MaxPresses == 3
MaxTime == 45

\* _handle_fn_down: the timestamps after pruning and appending now
Pruned ==
    SelectSeq(_tap_timestamps, LAMBDA t : clock - t < TRIPLE_TAP_THRESHOLD)
        \o <<clock>>

\* HotkeyListener(on_key_down, on_key_up, on_double_tap, on_triple_tap): a
\* listener that has seen no event is built with other callbacks
HotkeyListener(double, triple) ==
    /\ press_times = <<>>
    /\ _on_double_tap' = double
    /\ _on_triple_tap' = triple
    /\ UNCHANGED <<clock, _fn_held, _tap_timestamps, _pending_single,
                   _disambiguation_timer, _committed, press_times, key_downs,
                   key_ups, double_taps, triple_taps, since_up, notHotkey>>

\* _handle_fn_down, reached from _handle_flags_changed when fn goes down
_handle_fn_down ==
    LET stamps == Pruned
        tap_count == Len(stamps)
    IN
    /\ ~_fn_held
    /\ Len(press_times) < MaxPresses
    /\ _fn_held' = TRUE
    /\ press_times' = Append(press_times, clock)
    /\ IF /\ tap_count >= 3
          /\ _on_triple_tap
          /\ clock - stamps[tap_count - 2] <= TRIPLE_TAP_THRESHOLD
       THEN /\ _disambiguation_timer' = NoTimer
            /\ _tap_timestamps' = <<>>
            /\ _committed' = TRUE
            /\ triple_taps' = triple_taps + 1
            /\ since_up' = since_up \cup {"on_triple_tap"}
            /\ UNCHANGED <<_pending_single, key_downs, double_taps>>
       ELSE IF /\ tap_count >= 2
               /\ _on_double_tap
               /\ clock - stamps[tap_count - 1] <= DOUBLE_TAP_THRESHOLD
       THEN IF _on_triple_tap
            THEN /\ _tap_timestamps' = stamps
                 /\ _committed' = FALSE
                 /\ _disambiguation_timer' =
                        Timer("_commit_double_tap",
                              clock + DOUBLE_TAP_THRESHOLD)
                 /\ UNCHANGED <<_pending_single, key_downs, double_taps,
                                triple_taps, since_up>>
            ELSE /\ _disambiguation_timer' = NoTimer
                 /\ _tap_timestamps' = <<>>
                 /\ _committed' = TRUE
                 /\ double_taps' = double_taps + 1
                 /\ since_up' = since_up \cup {"on_double_tap"}
                 /\ UNCHANGED <<_pending_single, key_downs, triple_taps>>
       ELSE IF _on_double_tap \/ _on_triple_tap
       THEN /\ _tap_timestamps' = stamps
            /\ _committed' = FALSE
            /\ _pending_single' = TRUE
            /\ _disambiguation_timer' =
                   Timer("_commit_single_press",
                         clock + TAP_DISAMBIGUATION_DELAY)
            /\ UNCHANGED <<key_downs, double_taps, triple_taps, since_up>>
       ELSE /\ _tap_timestamps' = stamps
            /\ _committed' = TRUE
            /\ _disambiguation_timer' = NoTimer
            /\ key_downs' = key_downs + 1
            /\ since_up' = since_up \cup {"on_key_down"}
            /\ UNCHANGED <<_pending_single, double_taps, triple_taps>>
    /\ UNCHANGED <<clock, key_ups, _on_double_tap, _on_triple_tap, notHotkey>>

\* _handle_fn_up, reached from _handle_flags_changed when fn goes up
_handle_fn_up ==
    /\ _fn_held
    /\ _fn_held' = FALSE
    /\ key_ups' = IF _committed THEN key_ups + 1 ELSE key_ups
    /\ since_up' = IF _committed THEN {} ELSE since_up
    /\ _committed' = FALSE
    /\ UNCHANGED <<clock, _tap_timestamps, _pending_single,
                   _disambiguation_timer, press_times, key_downs,
                   double_taps, triple_taps, _on_double_tap, _on_triple_tap,
                   notHotkey>>

\* _commit_double_tap, called by the timer: no third tap arrived
_commit_double_tap ==
    /\ _disambiguation_timer.kind = "_commit_double_tap"
    /\ clock = _disambiguation_timer.due
    /\ _disambiguation_timer' = NoTimer
    /\ IF ~_committed
       THEN /\ _tap_timestamps' = <<>>
            /\ _committed' = TRUE
            /\ double_taps' = double_taps + 1
            /\ since_up' = since_up \cup {"on_double_tap"}
       ELSE UNCHANGED <<_tap_timestamps, _committed, double_taps, since_up>>
    /\ UNCHANGED <<clock, _fn_held, _pending_single, press_times, key_downs,
                   key_ups, triple_taps, _on_double_tap, _on_triple_tap,
                   notHotkey>>

\* _commit_single_press without the test of _fn_held
_commit_single_press_released ==
    /\ _disambiguation_timer.kind = "_commit_single_press"
    /\ clock = _disambiguation_timer.due
    /\ _disambiguation_timer' = NoTimer
    /\ _pending_single' = FALSE
    /\ IF ~_committed
       THEN /\ _committed' = TRUE
            /\ key_downs' = key_downs + 1
            /\ since_up' = since_up \cup {"on_key_down"}
       ELSE UNCHANGED <<_committed, key_downs, since_up>>
    /\ UNCHANGED <<clock, _fn_held, _tap_timestamps, press_times, key_ups,
                   double_taps, triple_taps, _on_double_tap, _on_triple_tap,
                   notHotkey>>

\* _commit_single_press, called by the timer: a real single press
_commit_single_press ==
    /\ _disambiguation_timer.kind = "_commit_single_press"
    /\ clock = _disambiguation_timer.due
    /\ _disambiguation_timer' = NoTimer
    /\ _pending_single' = FALSE
    /\ IF ~_committed /\ _fn_held
       THEN /\ _committed' = TRUE
            /\ key_downs' = key_downs + 1
            /\ since_up' = since_up \cup {"on_key_down"}
       ELSE UNCHANGED <<_committed, key_downs, since_up>>
    /\ UNCHANGED <<clock, _fn_held, _tap_timestamps, press_times, key_ups,
                   double_taps, triple_taps, _on_double_tap, _on_triple_tap,
                   notHotkey>>

\* Time passes, from the first press on; a timer that is due fires first
Tick ==
    /\ press_times # <<>>
    /\ clock < MaxTime
    /\ _disambiguation_timer.kind = "none" \/ clock < _disambiguation_timer.due
    /\ clock' = clock + 1
    /\ UNCHANGED <<_fn_held, _tap_timestamps, _pending_single,
                   _disambiguation_timer, _committed, press_times, key_downs,
                   key_ups, double_taps, triple_taps, _on_double_tap,
                   _on_triple_tap, since_up, notHotkey>>

NextHotkey ==
    \/ _handle_fn_down
    \/ _handle_fn_up
    \/ _commit_double_tap
    \/ _commit_single_press
    \/ Tick

SpecHotkey == InitIdle /\ [][NextHotkey]_vars

\* The listener with any choice of multi-tap callbacks
NextListener ==
    \/ \E double, triple \in BOOLEAN : HotkeyListener(double, triple)
    \/ NextHotkey

SpecListener == InitIdle /\ [][NextListener]_vars

---------------------------------------------------------------------------
(* The word budget (muttr/budget.py) of a limited tier, as                 *)
(* _transcribe_and_insert uses it: is_over_budget before the insertion,    *)
(* record_usage after it.                                                  *)

\* _get_usage(day)
_get_usage(day) ==
    IF day \in DOMAIN word_usage /\ word_usage[day] # NoRecord
    THEN word_usage[day] ELSE 0

\* _has_record(day)
_has_record(day) == day \in DOMAIN word_usage /\ word_usage[day] # NoRecord

\* max(0, daily_limit - used) of a day with a record
Unused(day) ==
    IF ~_has_record(day) THEN 0
    ELSE IF daily_limit > _get_usage(day) THEN daily_limit - _get_usage(day)
    ELSE 0

RECURSIVE RolloverFrom(_)
RolloverFrom(i) ==
    IF i > ROLLOVER_DAYS THEN 0 ELSE Unused(today - i) + RolloverFrom(i + 1)

\* _get_rollover_budget()
_get_rollover_budget == RolloverFrom(1)

\* words_remaining_today()
words_remaining_today ==
    LET remaining == daily_limit + _get_rollover_budget - _get_usage(today)
    IN IF remaining > 0 THEN remaining ELSE 0

\* is_over_budget()
is_over_budget == words_remaining_today <= 0

\* A transcription of word_count words is inserted: is_over_budget() was
\* false, then record_usage(word_count)
record_usage(word_count) ==
    /\ ~is_over_budget
    /\ calls_today < MaxCalls
    /\ word_usage' = [word_usage EXCEPT ![today] = _get_usage(today) + word_count]
    /\ calls_today' = calls_today + 1
    /\ UNCHANGED <<today, notBudget>>

\* Midnight passes
NextDay ==
    /\ today < MaxDays
    /\ today' = today + 1
    /\ calls_today' = 0
    /\ UNCHANGED <<word_usage, notBudget>>

\* A transcription has one hundred words, or as many as remain
NextBudget ==
    \/ \E word_count \in {1, words_remaining_today} : record_usage(word_count)
    \/ NextDay

SpecBudget == InitIdle /\ [][NextBudget]_vars

---------------------------------------------------------------------------
(* Properties of clean_text                                                *)

\* What the stages make of the input of the last call, before the fallback
StagesOutput == Stages(Locals(text), STAGES(ClampLevel(level))).result

\* C1: clean_text returns the empty string exactly when its input is None,
\* empty or whitespace-only; for every other input and every integer level
\* the result has a non-whitespace character, and when the stages reduce
\* the text to nothing the result is the stripped raw input.
C1_EmptyOnlyForBlank ==
    pc = "cleaned" =>
        /\ (result = <<>>) <=> IsBlank(text)
        /\ ~IsBlank(text) => NonBlank(result)
        /\ (~IsBlank(text) /\ ~NonBlank(StagesOutput)) => result = StripWs(text)

\* A call whose stages left nothing and that returned the stripped input
C1_Witness ==
    /\ pc = "cleaned"
    /\ ~IsBlank(text)
    /\ ~NonBlank(StagesOutput)
    /\ result = StripWs(text)
    /\ level \notin 0..2

\* sub occurs in s as a contiguous run of atoms; how many times
Occurrences(sub, s) ==
    Cardinality({i \in 1..(Len(s) - Len(sub) + 1) :
                    SubSeq(s, i, i + Len(sub) - 1) = sub})

\* The <<placeholder, original>> pairs token extraction finds in the input
InputTokens == _extract_preserved(StripWs(text))[2]

\* The text with placeholders that the last stage hands to restoration
BeforeRestore ==
    LET names == STAGES(ClampLevel(level))
    IN Stages(Locals(text), SubSeq(names, 1, Len(names) - 1)).result

\* Every token extraction finds in the input occurs, atom for atom, in the
\* output of clean_text
C2_TokensPresent ==
    (pc = "cleaned" /\ ~IsBlank(text)) =>
        \A k \in 1..Len(InputTokens) : Occurrences(InputTokens[k][2], result) >= 1

\* C2: every URL, www token, e-mail-like token and code span that token
\* extraction finds in the input occurs byte for byte in the output at
\* levels 0, 1 and 2, and no stage between extraction and restoration
\* alters, duplicates or drops a placeholder: each placeholder reaches
\* restoration exactly once.
C2_Preservation ==
    (pc = "cleaned" /\ ~IsBlank(text) /\ level \in 0..2) =>
        \A k \in 1..Len(InputTokens) :
            /\ Occurrences(InputTokens[k][2], result) >= 1
            /\ Occurrences(InputTokens[k][1], BeforeRestore) = 1

\* The spoken list markers of a text: bullet and dash markers, number
\* <word>, number <digit>, ordinals, <word>) and N. markers
SpokenMarkers(s) ==
    Len(MatchStarts(BulletEnds(s), 1, Len(s)))
    + Len(MatchStarts(DashEnds(s), 1, Len(s)))
    + Count(NumberWordItems(s)) + Count(NumberDigitItems(s))
    + Count(OrdinalItems(s)) + Count(CardinalParenItems(s))
    + Count(DigitDotItems(s))

\* A line that starts with "- " or with "N. "
IsListLine(line) ==
    \/ At(line, 1) = "-" /\ At(line, 2) = " "
    \/ At(line, 1) \in DigitAtoms /\ At(line, 2) = "." /\ At(line, 3) = " "

\* C3: at level >= 1 an input with a single spoken list marker is left as
\* prose: no line of the output starts with "- " or with "N. ".
C3_SingleMarkerStaysProse ==
    (pc = "cleaned" /\ level >= 1 /\ ~IsBlank(text)
        /\ SpokenMarkers(StripWs(text)) = 1) =>
        \A k \in 1..Len(SplitOn(result, "\n")) :
            ~IsListLine(SplitOn(result, "\n")[k])

\* The filler f (its atoms, in lower case) occurs in s as whole words
FillerPresent(f, s) == \E i \in 1..Len(s) : WordsEnd(s, i, f) > 0

\* Level monotonic strictness on every non-blank input, the inputs that
\* reach the safety fallback and the fillers inside preserved tokens included
FillersGoneAtLevel1 ==
    (pc = "cleaned" /\ level = 1 /\ ~IsBlank(text)) =>
        \A k \in 1..Len(FILLER_WORDS) :
            FillerPresent(FILLER_WORDS[k], clean_text(text, 0))
                => ~FillerPresent(FILLER_WORDS[k], result)

\* C4: for a non-blank input, a filler of the fixed list that is present in
\* clean_text(x, 0) is absent from clean_text(x, 1).  Stated for the inputs
\* that hold no preserved token and whose level 1 result is not the safety
\* fallback, where neither preservation nor the fallback keeps a filler.
C4_FillersGoneAtLevel1 ==
    (pc = "cleaned" /\ level = 1 /\ ~IsBlank(text)
        /\ InputTokens = <<>> /\ NonBlank(StagesOutput)) =>
        \A k \in 1..Len(FILLER_WORDS) :
            FillerPresent(FILLER_WORDS[k], clean_text(text, 0))
                => ~FillerPresent(FILLER_WORDS[k], result)

\* C5: for every input and every level 0, 1, 2, cleaning the output of
\* clean_text again at the same level changes nothing.
C5_Idempotent ==
    (pc = "recleaned" /\ level \in 0..2) => result = previous

---------------------------------------------------------------------------
(* The user dictionary: add_proper_nouns, then clean_text                  *)

\* The entries a caller adds: a new one-word trigger, a new trigger of two
\* words, and a one-word and a two-word trigger that override built-ins
CustomEntries ==
    [k \in {"muttr", "my co", "google", "new york"} |->
        CASE k = "muttr" -> <<"MuttR">>
          [] k = "my co" -> <<"MyCo">>
          [] k = "google" -> <<"GOOG">>
          [] k = "new york" -> <<"NYC">>]

\* The dictionaries passed to add_proper_nouns
NounChoices ==
    {[k \in K |-> CustomEntries[k]] :
        K \in (SUBSET DOMAIN CustomEntries) \ {{}}}

NounVocab ==
    {<<"a">>, <<"muttr">>, <<"Google">>, <<"my", " ", "co">>,
     <<"new", " ", "york">>, <<"York">>}

NounInputs == ChunkTexts(NounVocab, MaxChunks) \ {<<>>}

InitNounsSpec ==
    /\ text \in NounInputs
    /\ level = 1
    /\ result = <<>>
    /\ previous = <<>>
    /\ pc = "start"
    /\ InitNouns
    /\ InitCadenceIdle
    /\ InitMoreIdle

\* CUSTOM_PROPER_NOUNS.update(nouns); _rebuild_proper_noun_map()
add_proper_nouns(nouns) ==
    /\ pc = "start"
    /\ CUSTOM_PROPER_NOUNS' = Update(CUSTOM_PROPER_NOUNS, nouns)
    /\ _PROPER_NOUN_MAP' = _rebuild_proper_noun_map(CUSTOM_PROPER_NOUNS')
    /\ UNCHANGED <<cleanupVars, cadenceVars, moreVars>>

NextNouns ==
    \/ \E nouns \in NounChoices : add_proper_nouns(nouns)
    \/ \E l \in Levels : CleanText(l)

SpecNouns == InitNounsSpec /\ [][NextNouns]_vars

---------------------------------------------------------------------------
(* add_proper_nouns statement by statement (muttr/cleanup.py), with a      *)
(* clean_text call in another thread looking words up in the table         *)

\* COUNTRIES_AND_CITIES and BRAND_NAMES, restricted to the words of the model
PlaceKeys == {"new york"}
BrandKeys == {"iphone", "google"}

Only(f, K) == [k \in K \cap DOMAIN f |-> f[k]]

\* add_proper_nouns: CUSTOM_PROPER_NOUNS.update(nouns)
APN_Update(nouns) ==
    /\ rebuild_pc = "idle"
    /\ CUSTOM_PROPER_NOUNS' = Update(CUSTOM_PROPER_NOUNS, nouns)
    /\ rebuild_pc' = "clear"
    /\ UNCHANGED <<_PROPER_NOUN_MAP, lookup, notNounsRebuild>>

\* _rebuild_proper_noun_map: _PROPER_NOUN_MAP.clear()
RB_Clear ==
    /\ rebuild_pc = "clear"
    /\ _PROPER_NOUN_MAP' = <<>>
    /\ rebuild_pc' = "places"
    /\ UNCHANGED <<CUSTOM_PROPER_NOUNS, lookup, notNounsRebuild>>

\* _rebuild_proper_noun_map: the loops over the names and the places
RB_Places ==
    /\ rebuild_pc = "places"
    /\ _PROPER_NOUN_MAP' =
           Update(_PROPER_NOUN_MAP, Only(BUILTIN_PROPER_NOUNS, PlaceKeys))
    /\ rebuild_pc' = "brands"
    /\ UNCHANGED <<CUSTOM_PROPER_NOUNS, lookup, notNounsRebuild>>

\* _rebuild_proper_noun_map: _PROPER_NOUN_MAP.update(BRAND_NAMES)
RB_Brands ==
    /\ rebuild_pc = "brands"
    /\ _PROPER_NOUN_MAP' =
           Update(_PROPER_NOUN_MAP, Only(BUILTIN_PROPER_NOUNS, BrandKeys))
    /\ rebuild_pc' = "custom"
    /\ UNCHANGED <<CUSTOM_PROPER_NOUNS, lookup, notNounsRebuild>>

\* _rebuild_proper_noun_map: _PROPER_NOUN_MAP.update({k.lower(): v ...})
RB_Custom ==
    /\ rebuild_pc = "custom"
    /\ _PROPER_NOUN_MAP' = Update(_PROPER_NOUN_MAP, CUSTOM_PROPER_NOUNS)
    /\ rebuild_pc' = "idle"
    /\ UNCHANGED <<CUSTOM_PROPER_NOUNS, lookup, notNounsRebuild>>

\* _replace_single in the reader: lc in _PROPER_NOUN_MAP
RS_Test(lc) ==
    /\ lookup.stage # "tested"
    /\ lookup' = Lookup(lc, "tested", lc \in DOMAIN _PROPER_NOUN_MAP, "none")
    /\ UNCHANGED <<nounVars, rebuild_pc, notNounsRebuild>>

\* _replace_single in the reader: return _PROPER_NOUN_MAP[lc], or word
RS_Get ==
    /\ lookup.stage = "tested"
    /\ lookup' =
           [lookup EXCEPT
              !.stage = "done",
              !.outcome = IF ~lookup.found THEN "word"
                          ELSE IF lookup.key \in DOMAIN _PROPER_NOUN_MAP
                          THEN "canonical" ELSE "KeyError"]
    /\ UNCHANGED <<nounVars, rebuild_pc, notNounsRebuild>>

NextRebuild ==
    \/ \E nouns \in NounChoices : APN_Update(nouns)
    \/ RB_Clear
    \/ RB_Places
    \/ RB_Brands
    \/ RB_Custom
    \/ \E lc \in {"iphone", "new york", "muttr", "zed"} : RS_Test(lc)
    \/ RS_Get

SpecRebuild == InitIdle /\ [][NextRebuild]_vars

\* The trigger k occurs in s, whatever its case, between word boundaries
TriggerAt(s, i, k) == WordsEnd(s, i, KeyAtoms[k]) > 0

\* C6: after add_proper_nouns(m), for every key k of m, single-word or
\* multi-word, new or overriding a built-in, clean_text replaces the
\* occurrences of k, whatever their case, with m[k]: a text in which k
\* occurs comes out with m[k], and k is left nowhere in another casing.
C6_CustomNounsReplaced ==
    pc = "cleaned" =>
        \A k \in DOMAIN CUSTOM_PROPER_NOUNS :
            /\ (\E i \in 1..Len(text) : TriggerAt(text, i, k))
                   => Occurrences(CUSTOM_PROPER_NOUNS[k], result) >= 1
            /\ \A i \in 1..Len(result) :
                   TriggerAt(result, i, k) =>
                       SubSeq(result, i, i + Len(KeyAtoms[k]) - 1)
                           = CUSTOM_PROPER_NOUNS[k]

\* The same for the one-word keys only
C6_SingleWordKeys ==
    pc = "cleaned" =>
        \A k \in DOMAIN CUSTOM_PROPER_NOUNS :
            Len(KeyAtoms[k]) = 1 =>
                /\ (\E i \in 1..Len(text) : TriggerAt(text, i, k))
                       => Occurrences(CUSTOM_PROPER_NOUNS[k], result) >= 1
                /\ \A i \in 1..Len(result) :
                       TriggerAt(result, i, k) =>
                           <<result[i]>> = CUSTOM_PROPER_NOUNS[k]

---------------------------------------------------------------------------
(* Properties of the cadence engine                                        *)

Silent(h, j) == h[j].rms < _RMS_FLOOR

\* The first update of the run of silent updates that ends at update j
RunStart(h, j) ==
    CHOOSE i \in 1..j :
        /\ \A k \in i..j : Silent(h, k)
        /\ i = 1 \/ ~Silent(h, i - 1)

\* Update j is speech that ends a run of silence which began after speech
\* and has lasted at least 100 ms since its first silent update
EndsPause(h, j) ==
    /\ j > 1
    /\ ~Silent(h, j)
    /\ Silent(h, j - 1)
    /\ \E k \in 1..(RunStart(h, j - 1) - 1) : ~Silent(h, k)
    /\ h[j].t - h[RunStart(h, j - 1)].t >= 100

\* The pauses of the first n updates of the history h
RECURSIVE ExpectedPauses(_, _)
ExpectedPauses(h, n) ==
    IF n = 0 THEN <<>>
    ELSE IF EndsPause(h, n)
         THEN Append(ExpectedPauses(h, n - 1),
                     h[n].t - h[RunStart(h, n - 1)].t)
         ELSE ExpectedPauses(h, n - 1)

Dist(a, b) ==
    IF FracLeq(a, b) THEN Frac(b.num * a.den - a.num * b.den, a.den * b.den)
    ELSE Frac(a.num * b.den - b.num * a.den, a.den * b.den)

Between(x, a, b) ==
    \/ FracLeq(a, x) /\ FracLeq(x, b)
    \/ FracLeq(b, x) /\ FracLeq(x, a)

\* new = 0.9 * old + 0.1 * session, between the two and not farther from old
Blended(new, old, session) ==
    /\ 10 * new.num * old.den * session.den
           = new.den * (9 * old.num * session.den + session.num * old.den)
    /\ Between(new, old, session)
    /\ FracLeq(Dist(new, old), Dist(new, session))
    /\ ~FracEq(old, session) => ~FracEq(Dist(new, old), Dist(new, session))

\* The file holds x to one decimal: f tenths, at most 0.05 ms from x
Holds(f, x) ==
    /\ 2 * (f * x.den - 10 * x.num) <= x.den
    /\ 2 * (10 * x.num - f * x.den) <= x.den

\* The mean of the pauses and their 75th percentile, sorted(p)[int(n * 0.75)]
\* for n >= 4 and the mean otherwise, stated without sorting: v is that
\* element iff at most 3n \div 4 pauses are below v and more are at most v
MeanIs(x, pauses) == x.num * Len(pauses) = Sum(pauses) * x.den
RankIs(v, pauses, r) ==
    /\ Cardinality({i \in 1..Len(pauses) : pauses[i] < v}) <= r
    /\ Cardinality({i \in 1..Len(pauses) : pauses[i] <= v}) > r
P75Is(x, pauses) ==
    IF Len(pauses) >= 4
    THEN \E i \in 1..Len(pauses) :
            /\ FracEq(x, Frac(pauses[i], 1))
            /\ RankIs(pauses[i], pauses, (3 * Len(pauses)) \div 4)
    ELSE MeanIs(x, pauses)
P90Is(x, pauses) ==
    IF Len(pauses) >= 10
    THEN \E i \in 1..Len(pauses) :
            /\ FracEq(x, Frac(pauses[i], 1))
            /\ RankIs(pauses[i], pauses, (9 * Len(pauses)) \div 10)
    ELSE P75Is(x, pauses)

\* C8: after finish_session on a session with n >= 1 pauses, a stored
\* profile with sample_count 0 gives a profile whose mean, p75 and p90 are
\* the session's; otherwise each statistic is 0.9 * old + 0.1 * session,
\* between the two and closer to the old one; sample_count has grown by n;
\* that profile is returned and the file, written once, holds it (its
\* statistics to one decimal)
C8_MergeRule ==
    (tracker = "finished" /\ _pauses_ms # <<>>) =>
        /\ MeanIs(session_mean(_pauses_ms), _pauses_ms)
        /\ P75Is(session_p75(_pauses_ms), _pauses_ms)
        /\ P90Is(session_p90(_pauses_ms), _pauses_ms)
        /\ IF loaded.sample_count = 0
           THEN /\ FracEq(returned.mean_pause_ms, session_mean(_pauses_ms))
                /\ FracEq(returned.p75_pause_ms, session_p75(_pauses_ms))
                /\ FracEq(returned.p90_pause_ms, session_p90(_pauses_ms))
           ELSE /\ Blended(returned.mean_pause_ms, loaded.mean_pause_ms,
                           session_mean(_pauses_ms))
                /\ Blended(returned.p75_pause_ms, loaded.p75_pause_ms,
                           session_p75(_pauses_ms))
                /\ Blended(returned.p90_pause_ms, loaded.p90_pause_ms,
                           session_p90(_pauses_ms))
        /\ returned.sample_count = loaded.sample_count + Len(_pauses_ms)
        /\ disk.exists
        /\ disk.sample_count = returned.sample_count
        /\ Holds(disk.mean_pause_ms, returned.mean_pause_ms)
        /\ Holds(disk.p75_pause_ms, returned.p75_pause_ms)
        /\ Holds(disk.p90_pause_ms, returned.p90_pause_ms)
        /\ writes = 1

\* A session of four pauses, not all alike, merged into a stored profile
\* that has samples
C8_Witness ==
    /\ tracker = "finished"
    /\ Len(_pauses_ms) = 4
    /\ \E i \in 1..4 : _pauses_ms[i] # _pauses_ms[1]
    /\ loaded.sample_count > 0
    /\ returned.sample_count = loaded.sample_count + 4

\* C9: finish_session on a tracker with an empty pause list returns the
\* stored profile, statistics and sample_count unchanged, and does not write
\* the file; a tracker that is dropped without finish_session leaves the
\* file as it is
C9_EmptySessionContributesNothing ==
    [][/\ (tracker = "active" /\ tracker' = "finished" /\ _pauses_ms = <<>>)
            => /\ returned' = load_profile
               /\ disk' = disk
               /\ writes' = writes
       /\ (tracker = "active" /\ tracker' = "dropped")
            => /\ disk' = disk
               /\ writes' = writes]_vars

\* finish_session has returned for a session of speech and an unfinished
\* silence, with a profile on disk
C9_Witness ==
    /\ tracker = "finished"
    /\ last = "finish_session"
    /\ _pauses_ms = <<>>
    /\ _had_speech
    /\ _in_pause
    /\ disk.exists
    /\ returned = load_profile
    /\ writes = 0

\* clamp(x, 800, 3000) of x in tenths of a ms
ClampTenths(x) ==
    IF x < 10 * _FLOOR_MS THEN 10 * _FLOOR_MS
    ELSE IF x > 10 * _CEILING_MS THEN 10 * _CEILING_MS
    ELSE x

Disabled == adaptive_silence = "false"

\* C10 as stated: get_auto_stop_ms returns 2000 when adaptive silence is
\* disabled by configuration or the stored profile has sample_count < 20,
\* otherwise 2 * p90_pause_ms clamped to [800, 3000]; the result is within
\* [800, 3000]
C10_AutoStopExact ==
    last = "get_auto_stop_ms" =>
        /\ IF Disabled \/ disk.sample_count < 20
           THEN auto_stop = 2000
           ELSE 10 * auto_stop = ClampTenths(2 * disk.p90_pause_ms)
        /\ auto_stop \in 800..3000

\* C10 amended: get_auto_stop_ms returns 2000 when adaptive silence is
\* disabled by configuration or the stored profile has sample_count < 20,
\* otherwise 2 * p90_pause_ms truncated to a whole number of ms and clamped
\* to [800, 3000]; the result is within [800, 3000]
C10_AutoStopTruncated ==
    last = "get_auto_stop_ms" =>
        /\ IF Disabled \/ disk.sample_count < 20
           THEN auto_stop = 2000
           ELSE 10 * auto_stop
                    = ClampTenths(10 * ((2 * disk.p90_pause_ms) \div 10))
        /\ auto_stop \in 800..3000

\* Enabled, trained, and 2 * p90 is no whole number of ms inside the range
C10_Witness ==
    /\ last = "get_auto_stop_ms"
    /\ ~Disabled
    /\ disk.sample_count >= 20
    /\ (2 * disk.p90_pause_ms) % 10 # 0
    /\ auto_stop \in 801..2999

---------------------------------------------------------------------------
(* Properties of the cadence coaching                                      *)

\* The label by the rules in their order, every comparison strict and exact
ExpectedFeedback ==
    IF Len(entries) < 5 THEN "None"
    ELSE IF /\ baseline_wpm.num > 0
            /\ 100 * metrics.wpm * baseline_wpm.den > 125 * baseline_wpm.num
    THEN "Fast"
    ELSE IF /\ baseline_energy.num > 0
            /\ 10 * metrics.energy_rms * baseline_energy.den
                   < 4 * baseline_energy.num
    THEN "Quiet"
    ELSE IF metrics.confidence > 920 /\ metrics.filler_count = 0 THEN "Clear"
    ELSE IF metrics.confidence > 800 THEN "Steady"
    ELSE "None"

\* The energy of the snapshot is exactly 40 % of a positive baseline
AtEnergyBoundary ==
    /\ baseline_energy.num > 0
    /\ 10 * metrics.energy_rms * baseline_energy.den = 4 * baseline_energy.num

\* C11: get_feedback returns None below 5 entries, otherwise the first of
\* Fast, Quiet, Clear, Steady whose condition holds, else None, with every
\* comparison strict, so that a value exactly at a boundary does not
\* trigger; the call leaves entries and baselines as they are
C11_Feedback ==
    [][speech_op' = "get_feedback" =>
          /\ feedback' = ExpectedFeedback'
          /\ UNCHANGED <<entries, baseline_wpm, baseline_energy>>]_vars

\* The same away from the 40 % energy boundary
C11_FeedbackOffBoundary ==
    [][(speech_op' = "get_feedback" /\ ~AtEnergyBoundary') =>
          /\ feedback' = ExpectedFeedback'
          /\ UNCHANGED <<entries, baseline_wpm, baseline_energy>>]_vars

\* C12: after from_dict of a document of any length and any sequence of
\* update calls the profile holds at most 100 entries, and they are the
\* most recent min(n, 100) of the n snapshots it was given, in arrival
\* order
C12_RollingWindow ==
    /\ Len(entries) <= 100
    /\ Len(entries) = IF Len(arrivals) < 100 THEN Len(arrivals) ELSE 100
    /\ \A i \in 1..Len(entries) :
          entries[i] = arrivals[Len(arrivals) - Len(entries) + i]

\* 103 snapshots have arrived, the last by update: the first three are gone
C12_Witness ==
    /\ speech_op = "update"
    /\ Len(arrivals) = 103
    /\ Len(entries) = 100
    /\ entries[1].n = 4
    /\ entries[100].n = 103

---------------------------------------------------------------------------
(* Properties of the confidence review                                     *)

\* C13: a word's tier is high iff its probability is >= 0.70, medium iff it
\* is >= 0.40 and < 0.70, low iff it is < 0.40: each boundary value belongs
\* to the higher band
C13_Tiers ==
    \A i \in 1..Len(words) :
        /\ tier(words[i]) = "high" <=> words[i].probability >= 70
        /\ tier(words[i]) = "medium" <=>
              (words[i].probability >= 40 /\ words[i].probability < 70)
        /\ tier(words[i]) = "low" <=> words[i].probability < 40

\* A result with a word at 0.70 and a word at 0.40
C13_Witness ==
    /\ conf_op = "TranscriptionResult"
    /\ Len(words) = 2
    /\ words[1].probability = 70 /\ tier(words[1]) = "high"
    /\ words[2].probability = 40 /\ tier(words[2]) = "medium"

AllHigh == \A i \in 1..Len(words) : words[i].probability >= 70

\* C14: should_show_review is false when the result has no word confidence
\* or every word is high; otherwise it is the confidence_review flag, false
\* when the flag is absent or the configuration cannot be loaded; text and
\* words are left as they are
C14_ShouldShowReview ==
    [][conf_op' = "should_show_review" =>
          /\ shown' = IF ~has_word_confidence \/ AllHigh THEN FALSE
                      ELSE confidence_review' = "true"
          /\ UNCHANGED <<result_text, words>>]_vars

\* The review is shown: word confidence, a word below high, the flag set
C14_Witness ==
    /\ conf_op = "should_show_review"
    /\ shown
    /\ has_word_confidence
    /\ ~AllHigh
    /\ confidence_review = "true"

\* C15: replace_word(index, new) with 0 <= index < len(words) replaces the
\* text of that word only, gives it probability 1.0, keeps its start and end
\* and every other word, and makes text the words joined by spaces; with
\* any other index words and text stay as they are
C15_ReplaceWord ==
    [][conf_op' = "replace_word" =>
          IF 0 <= index' /\ index' < Len(words)
          THEN /\ Len(words') = Len(words)
               /\ \A j \in 1..Len(words) :
                     j # index' + 1 => words'[j] = words[j]
               /\ words'[index' + 1].word = new_word'
               /\ words'[index' + 1].probability = 100
               /\ words'[index' + 1].start = words[index' + 1].start
               /\ words'[index' + 1].end = words[index' + 1].end
               /\ Len(result_text') = 2 * Len(words) - 1
               /\ \A j \in 1..Len(words) :
                     /\ result_text'[2 * j - 1] = words'[j].word
                     /\ j > 1 => result_text'[2 * j - 2] = " "
          ELSE UNCHANGED <<words, result_text>>]_vars

\* The second of two words was replaced in a result whose text began with
\* a space
C15_Witness ==
    /\ conf_op = "replace_word"
    /\ index = 1
    /\ Len(words) = 2
    /\ words[1].word # "c" /\ words[1].probability < 100
    /\ words[2] = WordInfo("c", 20, 25, 100)
    /\ result_text = <<words[1].word, " ", "c">>

---------------------------------------------------------------------------
(* Properties of the profile files                                         *)

\* A call of f has just returned or raised
Loaded(f) ==
    /\ load_result'.fn = f
    /\ UNCHANGED <<cadence_json, speech_json>>

\* C16: when the stored file is missing, unreadable or corrupt (not
\* parseable, or no valid profile document), load_profile and
\* load_speech_profile raise nothing and return the empty default profile
C16_LoadNeverRaises ==
    [][/\ (Loaded("load_profile") /\ cadence_json.kind # "valid")
            => load_result' = Returns("load_profile", CadenceProfile)
       /\ (Loaded("load_speech_profile") /\ speech_json.kind # "valid")
            => load_result' = Returns("load_speech_profile", SpeechProfile)
      ]_vars

\* The same for a file that is missing, cannot be opened or is not JSON
C16_CaughtFailures ==
    [][/\ (/\ Loaded("load_profile")
           /\ cadence_json.kind \in {"missing", "unreadable", "unparseable"})
            => load_result' = Returns("load_profile", CadenceProfile)
       /\ (/\ Loaded("load_speech_profile")
           /\ speech_json.kind \in {"missing", "unreadable", "unparseable"})
            => load_result' = Returns("load_speech_profile", SpeechProfile)
      ]_vars

\* C17: analyze raises nothing: for a null, empty or blank transcript it
\* returns word_count 0, wpm 0 and filler_count 0, for duration_s <= 0 it
\* returns wpm 0, and for an empty audio buffer energy_rms 0
C17_AnalyzeNeverRaises ==
    analysis.called =>
        /\ analysis.raised = "none"
        /\ (transcript = NoneText \/ StripWs(transcript) = <<>>) =>
              /\ analysis.word_count = 0
              /\ analysis.wpm = 0
              /\ analysis.filler_count = 0
        /\ duration_s <= 0 => analysis.wpm = 0
        /\ audio.samples = 0 => analysis.energy_rms = 0

\* The same for a transcript that is a string
C17_DefaultsForStrings ==
    (analysis.called /\ transcript # NoneText) =>
        /\ analysis.raised = "none"
        /\ StripWs(transcript) = <<>> =>
              /\ analysis.word_count = 0
              /\ analysis.wpm = 0
              /\ analysis.filler_count = 0
        /\ duration_s <= 0 => analysis.wpm = 0
        /\ audio.samples = 0 => analysis.energy_rms = 0

---------------------------------------------------------------------------
(* Properties of the application                                           *)

AncillaryStages ==
    {"finish_session", "build_context_prompt", "add_entry", "coaching",
     "record_usage"}

\* C18: whichever of finish_session, build_context_prompt, history logging,
\* the coaching update and usage recording raise, the exception does not
\* reach the outer handler, and a call that got a non-empty cleaned text
\* within budget has scheduled insert_text exactly once when it returns
C18_AncillaryFailuresCaught ==
    /\ error \notin AncillaryStages
    /\ (p_pc = "returned" /\ cleaned = "text" /\ within_budget)
          => inserts = 1
    /\ (p_pc = "record_usage") => inserts = 1

\* Every ancillary stage raised and insert_text was scheduled all the same
C18_Witness ==
    /\ p_pc = "returned"
    /\ failed = AncillaryStages
    /\ cleaned = "text"
    /\ inserts = 1
    /\ hides = 1
    /\ error = "none"

\* C19: in every interleaving of _on_fn_down, _on_fn_up and the level timer
\* with the _transcribe_and_insert threads, a tracker on which
\* finish_session was invoked belongs to a recording that has stopped, and
\* update() was never called on a tracker after its finish_session
C19_SingleActiveSession ==
    /\ \A t \in finished : recording # t
    /\ late_updates = {}

---------------------------------------------------------------------------
(* Properties of the fn key listener                                       *)

\* The first three presses, once the third has been handled
ThreePresses(span) ==
    /\ Len(press_times) >= 3
    /\ press_times[3] - press_times[1] <= span

\* C20: with on_double_tap and on_triple_tap registered, three presses
\* whose first-to-third span is at most TRIPLE_TAP_THRESHOLD invoke
\* on_triple_tap exactly once, and neither on_double_tap nor on_key_down
\* is invoked for them
C20_TripleTapPriority ==
    (ThreePresses(TRIPLE_TAP_THRESHOLD) /\ Len(press_times) = 3)
        => triple_taps = 1 /\ double_taps = 0 /\ key_downs = 0

\* Three presses with the second at most DOUBLE_TAP_THRESHOLD after the
\* first, the third less than DOUBLE_TAP_THRESHOLD after the second, and a
\* span below TRIPLE_TAP_THRESHOLD do invoke on_triple_tap once and nothing
\* else
C20_QuickTripleTap ==
    (/\ ThreePresses(TRIPLE_TAP_THRESHOLD - 1)
     /\ Len(press_times) = 3
     /\ press_times[2] - press_times[1] <= DOUBLE_TAP_THRESHOLD
     /\ press_times[3] - press_times[2] < DOUBLE_TAP_THRESHOLD)
        => triple_taps = 1 /\ double_taps = 0 /\ key_downs = 0

\* The fn key goes down, goes up; a multi-tap callback is registered
Press == ~_fn_held /\ _fn_held'
Release == _fn_held /\ ~_fn_held'
MultiTap == _on_double_tap \/ _on_triple_tap

\* C21: with a multi-tap callback registered, on_key_down is invoked only by
\* the disambiguation timer of the latest press, TAP_DISAMBIGUATION_DELAY
\* after it, with the key still held and nothing committed, and a release
\* before that timer invokes neither on_key_down nor on_key_up; with no
\* multi-tap callback a press invokes on_key_down at once and a release
\* on_key_up; every release resets _committed
C21_SinglePress ==
    [][/\ (MultiTap /\ key_downs' # key_downs) =>
              /\ _disambiguation_timer.kind = "_commit_single_press"
              /\ clock = press_times[Len(press_times)]
                             + TAP_DISAMBIGUATION_DELAY
              /\ _fn_held /\ ~_committed
              /\ key_downs' = key_downs + 1
       /\ (/\ MultiTap /\ Release
           /\ _disambiguation_timer.kind = "_commit_single_press") =>
              UNCHANGED <<key_downs, key_ups>>
       /\ (~MultiTap /\ Press) =>
              key_downs' = key_downs + 1 /\ key_ups' = key_ups
       /\ (~MultiTap /\ Release) =>
              key_ups' = key_ups + 1 /\ key_downs' = key_downs
       /\ Release => ~_committed'
      ]_vars

\* A held press was committed by its timer and released; a quick press
\* passed with no callback
C21_Witness ==
    /\ _on_double_tap /\ _on_triple_tap
    /\ Len(press_times) = 2
    /\ press_times[2] > press_times[1] + TAP_DISAMBIGUATION_DELAY
    /\ clock > press_times[2] + TAP_DISAMBIGUATION_DELAY
    /\ ~_fn_held
    /\ key_downs = 1
    /\ key_ups = 1
    /\ double_taps = 0

\* C26: on_key_up is invoked only when on_key_down or on_double_tap was
\* invoked since the previous on_key_up
C26_BalancedCallbacks ==
    [][key_ups' # key_ups =>
           since_up \cap {"on_key_down", "on_double_tap"} # {}]_vars

\* C27: with both multi-tap callbacks registered, on_key_down and
\* on_double_tap are invoked only while the fn key is down
C27_StartOnlyWhileHeld ==
    [][(key_downs' # key_downs \/ double_taps' # double_taps) => _fn_held'
      ]_vars

---------------------------------------------------------------------------
(* Properties of the baselines                                             *)

\* The arrivals still in the window whose value under key is positive
Contributing(key) ==
    {i \in 1..Len(arrivals) :
        /\ i > Len(arrivals) - _SPEECH_PROFILE_WINDOW
        /\ arrivals[i][key] > 0}

RECURSIVE Total(_, _)
Total(S, key) ==
    IF S = {} THEN 0
    ELSE LET i == CHOOSE j \in S : TRUE
         IN arrivals[i][key] + Total(S \ {i}, key)

\* x is the mean of the contributing values, 0 when there is none
BaselineIs(x, key) ==
    IF Contributing(key) = {} THEN x.num = 0
    ELSE x.num * Cardinality(Contributing(key))
             = Total(Contributing(key), key) * x.den

---------------------------------------------------------------------------
(* Properties of the word budget                                           *)

RECURSIVE UsedIn(_, _)
UsedIn(a, b) == IF a > b THEN 0 ELSE _get_usage(a) + UsedIn(a + 1, b)

\* C30: the words admitted over any span of days are at most the daily
\* limits of those days and of the ROLLOVER_DAYS days before them (no
\* transcription here crosses the limit: each has as many words as remain,
\* or fewer)
C30_RolloverSpentOnce ==
    \A a \in 1..today : \A b \in a..today :
        UsedIn(a, b) <= daily_limit * (b - a + 1 + ROLLOVER_DAYS)

---------------------------------------------------------------------------
(* Properties of the proper-noun table under concurrency                   *)

\* C28: in every state a reader can observe, the table holds every
\* built-in trigger: a lookup of a built-in trigger finds it and the
\* reader never meets a key that has vanished
C28_RebuildAtomic ==
    /\ DOMAIN BUILTIN_PROPER_NOUNS \subseteq DOMAIN _PROPER_NOUN_MAP
    /\ (lookup.stage # "none" /\ lookup.key \in DOMAIN BUILTIN_PROPER_NOUNS)
           => lookup.found
    /\ lookup.outcome # "KeyError"


---------------------------------------------------------------------------
(* The numbered-list formatter on its own: _format_numbered_list is given   *)
(* a text with list markers                                                *)

NumberedInputs == ChunkTexts(ListVocab, MaxChunks)

InitNumbered ==
    /\ text \in NumberedInputs
    /\ level = 1
    /\ result = <<>>
    /\ previous = <<>>
    /\ pc = "start"
    /\ InitNouns
    /\ InitCadenceIdle
    /\ InitMoreIdle

\* result = _format_numbered_list(text)
FormatNumberedList ==
    /\ pc = "start"
    /\ result' = _format_numbered_list(text)
    /\ pc' = "formatted"
    /\ UNCHANGED <<text, level, previous, nounVars, cadenceVars, moreVars>>

NextNumbered == FormatNumberedList

SpecNumbered == InitNumbered /\ [][NextNumbered]_vars

\* The list of the first form, in the order number-word, number-digit,
\* ordinal, cardinal-paren, digit-dot, that yields one from its own items
\* (the ordinal and digit-dot forms need two items); the text itself when
\* none does
UseFirstMatch(s) ==
    LET W == NumberWordItems(s)
        D == NumberDigitItems(s)
        O == OrdinalItems(s)
        P == CardinalParenItems(s)
        T == DigitDotItems(s)
    IN IF ChunkItems(s, W) # <<>>
       THEN NumberedLines(Preamble(s, W), ChunkItems(s, W))
       ELSE IF ChunkItems(s, D) # <<>>
       THEN NumberedLines(Preamble(s, D), ChunkItems(s, D))
       ELSE IF Len(ChunkItems(s, O)) >= 2
       THEN NumberedLines(Preamble(s, O), ChunkItems(s, O))
       ELSE IF ChunkItems(s, P) # <<>>
       THEN NumberedLines(Preamble(s, P), ChunkItems(s, P))
       ELSE IF Len(ChunkItems(s, T)) >= 2
       THEN NumberedLines(Preamble(s, T), ChunkItems(s, T))
       ELSE s

\* C22: the output of _format_numbered_list holds the items of exactly one
\* form, the first in the fixed order that yields a list; no item of a form
\* that was tried and rejected stands beside them
C22_UseFirstMatch ==
    pc = "formatted" => result = UseFirstMatch(text)


---------------------------------------------------------------------------
(* Spoken structural commands: clean_text is given two segments of text    *)
(* with one command between them                                           *)

Segments == {<<"a">>, <<"b">>, <<"a", " ", "b">>, <<"iphone">>}

LineCommands == {<<"new", " ", "line">>, <<"next", " ", "line">>}
ParagraphCommands ==
    {<<"new", " ", "paragraph">>, <<"next", " ", "paragraph">>}
PeriodCommands == {<<"period", " ", "new", " ", "paragraph">>}
Commands == LineCommands \cup ParagraphCommands \cup PeriodCommands

Spoken(x, c, y) == x \o <<" ">> \o c \o <<" ">> \o y

CommandInputs ==
    {Spoken(x, c, y) : x \in Segments, c \in Commands, y \in Segments}

InitCommands ==
    /\ text \in CommandInputs
    /\ level = 1
    /\ result = <<>>
    /\ previous = <<>>
    /\ pc = "start"
    /\ InitNouns
    /\ InitCadenceIdle
    /\ InitMoreIdle

NextCommands == \E l \in Levels : CleanText(l)

SpecCommands == InitCommands /\ [][NextCommands]_vars

\* The lines of r are two pieces of text with n line breaks and nothing
\* else between them
Separated(r, n) ==
    LET lines == SplitOn(r, "\n")
    IN /\ Len(lines) = n + 1
       /\ lines[1] # <<>>
       /\ lines[n + 1] # <<>>
       /\ \A k \in 2..n : lines[k] = <<>>

\* C23: at every level a spoken "new line" or "next line" between two
\* segments of text leaves exactly one line break between them in the
\* output, "new paragraph" or "next paragraph" exactly one blank line, and
\* "period new paragraph" a "." followed by exactly one blank line
C23_StructuralCommands ==
    pc = "cleaned" =>
        \A x \in Segments : \A y \in Segments :
            /\ \A c \in LineCommands :
                   text = Spoken(x, c, y) => Separated(result, 1)
            /\ \A c \in ParagraphCommands :
                   text = Spoken(x, c, y) => Separated(result, 2)
            /\ \A c \in PeriodCommands :
                   text = Spoken(x, c, y) =>
                       /\ Separated(result, 2)
                       /\ LET first == Head(SplitOn(result, "\n"))
                          IN first[Len(first)] = "."


---------------------------------------------------------------------------
(* Built-in proper nouns through the whole of clean_text: the triggers     *)
(* stand at the start of the text, of a sentence, of a line, of a list     *)
(* item, or inside a sentence                                              *)

CasingVocab ==
    {<<"a">>, <<"iphone">>, <<"google">>, <<".">>, <<"number", " ", "one">>,
     <<"new", " ", "line">>}

CasingInputs == ChunkTexts(CasingVocab, MaxChunks) \ {<<>>}

InitCasing ==
    /\ text \in CasingInputs
    /\ level = 1
    /\ result = <<>>
    /\ previous = <<>>
    /\ pc = "start"
    /\ InitNouns
    /\ InitCadenceIdle
    /\ InitMoreIdle

NextCasing == \E l \in Levels : CleanText(l)

SpecCasing == InitCasing /\ [][NextCasing]_vars

\* C25: wherever a built-in one-word trigger stands in the output of
\* clean_text, at any level, it has its canonical casing: no stage after
\* _capitalize_proper_nouns changes it, also not at the start of a line, a
\* sentence or a list item
C25_CanonicalCasing ==
    pc = "cleaned" =>
        \A k \in DOMAIN BUILTIN_PROPER_NOUNS :
            Len(KeyAtoms[k]) = 1 =>
                \A i \in 1..Len(result) :
                    Lower(result[i]) = k =>
                        <<result[i]>> = BUILTIN_PROPER_NOUNS[k]


---------------------------------------------------------------------------
(* Properties of the coaching in the pipeline                              *)

\* The labels get_feedback returns in the course of n more transcriptions
\* of the pipeline, for a stored profile with the entries es
RECURSIVE LabelsWithin(_, _)
LabelsWithin(es, n) ==
    IF n = 0 THEN {}
    ELSE UNION {
        LET after == LastN(Append(es, m), _SPEECH_PROFILE_WINDOW)
        IN LabelsFor(Len(after) >= _SPEECH_PROFILE_MIN_ENTRIES,
                     Mean(PositiveValues(after, "wpm")),
                     Mean(PositiveValues(after, "energy_rms")), m)
               \cup LabelsWithin(after, n - 1) :
        m \in UNION {PipelineMetrics(Len(es) + 1, a, t, d) :
                        a \in CoachingAudios, t \in CoachingTexts,
                        d \in CoachingDurations}}

\* C29: each of the labels Fast, Quiet, Clear and Steady is reachable in
\* the pipeline: from the new profile there is a sequence of transcriptions
\* after which get_feedback returns it
C29_EveryLabelReachable ==
    speech_op = "init" =>
        {FEEDBACK_FAST, FEEDBACK_QUIET, FEEDBACK_CLEAR, FEEDBACK_STEADY}
            \subseteq LabelsWithin(entries, MaxTranscriptions)

\* In the pipeline get_feedback returns Fast, Quiet or nothing
C29_PipelineLabels ==
    /\ feedback \in {"None", FEEDBACK_FAST, FEEDBACK_QUIET}
    /\ metrics.confidence = 0


===========================================================================
